---- MODULE Spec2Model ----
(***************************************************************************)
(* A model of kadiya's cost-first dispatch core: the routing context and   *)
(* its token estimate, ModelRouter.route, UsageTracker and the             *)
(* orchestration in KadiyaProvider.chat with its per-session retry state.  *)
(*                                                                         *)
(* Text.  A text is a sequence of words; it stands for the words joined by *)
(* single spaces (the empty sequence is the empty string).  A word is a    *)
(* TLA+ string made of word characters, except for the few words listed in *)
(* the tables below (long runs of one letter, a Sinhala word, words with   *)
(* digits or punctuation), which are named by a tag and described by the   *)
(* tables.  A regular expression of the source is translated to what it    *)
(* matches on such a text: \bw\b is "some word equals w" (ignoring case),  *)
(* a.*b is "a occurs before b", and so on.                                 *)
(***************************************************************************)
EXTENDS Integers, Sequences, FiniteSets, TLC

VARIABLES
    rt_context,      \* the RoutingContext handed to route() directly
    rt_tiers,        \* ModelRouter.tiers of the router that is called
    rt_decision,     \* the RoutingDecision route() returned, or NoDecision
    retry_counts,    \* KadiyaProvider._retry_counts: session key -> count
    usage_tracker,   \* KadiyaProvider.usage_tracker (a UsageTracker)
    frames,          \* the chat() calls suspended at `await self.base.chat`
    calls,           \* the number of chat() calls made so far
    last,            \* the step taken last and what its caller saw
    outcomes,        \* history: per session key, the outcomes of its finished
                     \* calls in the order they became known
    recorded,        \* history: every UsageMetrics handed to record()
    threads,         \* the record() calls running on threads: thread -> frame
    call             \* a call of one of the stateless components: its
                     \* arguments and, once it has returned, its result

vars == <<rt_context, rt_tiers, rt_decision, retry_counts, usage_tracker,
          frames, calls, last, outcomes, recorded, threads, call>>

-----------------------------------------------------------------------------
(* Bounds of the model *)

\* chat() calls made in one behaviour
MaxCalls == 3
\* chat() calls suspended at the transport at the same time
MaxInFlight == 2
\* chat() calls made in one behaviour of one call at a time
MaxSoloCalls == 2
\* the largest retry_count of a context handed to route() directly
MaxRetry == 3
\* record() calls made before the tracker specification starts
PreRecorded == 98
\* record() calls made in one behaviour of the tracker specification
MaxRecords == 4
\* threads that call record() on one tracker
MaxThreads == 2
\* the longest text handed to truncate(), in characters
MaxTextLen == 13
\* the largest max_tokens handed to truncate()
MaxTokens == 3
\* the most words of a generated text handed to optimize()
MaxWords == 4
\* the most messages of a generated history, and the largest retain_last
MaxMessages == 3
MaxRetain == 2
\* the most characters of an API key after its prefix
MaxKeyTail == 60

-----------------------------------------------------------------------------
(* Words and texts *)

\* a run of 15996 letters 'a' (a text of 4000 estimated tokens)
FillerAt == "<a*15996>"
\* a run of 16000 letters 'a' (a text of 4001 estimated tokens)
FillerOver == "<a*16000>"
\* the Sinhala word for "summary", 6 characters of the range U+0D80..U+0DFF
SinhalaSummary == "<si:saramsha>"
\* the Sinhala word for "translate", 10 characters of the range U+0D80..U+0DFF
SinhalaTranslate == "<si:parivartanaya>"
\* the Sinhala word for "delete", 5 characters of the range U+0D80..U+0DFF
SinhalaDelete == "<si:makanna>"
\* the word {"k":1}: an opening brace directly followed by a double quote
JsonLiteral == "<{\"k\":1}>"
\* an old Sri Lankan NIC: nine digits and the letter V
NicOld == "<123456789V>"
\* twelve digits (a new NIC)
NicNew == "<200012345678>"
\* a phone number +94 and nine digits
PhoneIntl == "<+94771234567>"
\* a phone number 0 and nine digits
PhoneLocal == "<0771234567>"

\* len(w)
WordChars(w) ==
    CASE w = FillerAt -> 15996
      [] w = FillerOver -> 16000
      [] w = SinhalaSummary -> 6
      [] w = SinhalaTranslate -> 10
      [] w = SinhalaDelete -> 5
      [] w = JsonLiteral -> 7
      [] w = NicOld -> 10
      [] w = NicNew -> 12
      [] w = PhoneIntl -> 12
      [] w = PhoneLocal -> 10
      [] OTHER -> Len(w)

\* the characters of w in the ranges U+0D80..U+0DFF, U+4E00..U+9FFF, U+3040..U+30FF
DenseChars(w) ==
    IF w \in {SinhalaSummary, SinhalaTranslate, SinhalaDelete} THEN WordChars(w) ELSE 0

\* w.lower(), for the words written with capitals that the model uses
Lower(w) ==
    CASE w = "JSON" -> "json"
      [] w = "Password" -> "password"
      [] w = "Translate" -> "translate"
      [] OTHER -> w

RECURSIVE SumFrom(_, _)
SumFrom(numbers, i) ==
    IF i > Len(numbers) THEN 0 ELSE numbers[i] + SumFrom(numbers, i + 1)

\* sum(numbers)
Sum(numbers) == SumFrom(numbers, 1)

\* len(text): the words and one space between two words
TextLen(t) ==
    IF t = <<>> THEN 0
    ELSE Sum([i \in 1..Len(t) |-> WordChars(t[i])]) + (Len(t) - 1)

\* re.search(r'\bw\b', text, re.IGNORECASE)
HasWord(t, w) == \E i \in 1..Len(t) : Lower(t[i]) = w

\* re.search(r'\ba\b.*\bb\b', text, re.IGNORECASE)
HasWordThenWord(t, a, b) ==
    \E i \in 1..Len(t) : \E j \in (i + 1)..Len(t) : Lower(t[i]) = a /\ Lower(t[j]) = b

\* re.search(r'\ba\s+b\b', text, re.IGNORECASE): two neighbouring words
HasPhrase(t, a, b) ==
    \E i \in 1..(Len(t) - 1) : Lower(t[i]) = a /\ Lower(t[i + 1]) = b

-----------------------------------------------------------------------------
(* RoutingContext and its token estimate *)

\* _estimate_tokens without its safety margin: int(sinhala_cjk / 2 + other / 4)
EstimateTokens_NoMargin(text) ==
    IF text = <<>> THEN 0
    ELSE LET sinhala_cjk == Sum([i \in 1..Len(text) |-> DenseChars(text[i])])
             other == TextLen(text) - sinhala_cjk
         IN  (2 * sinhala_cjk + other) \div 4

\* _estimate_tokens: int(sinhala_cjk / 2 + other / 4) + 1, and 0 for the
\* empty text.  d/2 + o/4 is (2d + o)/4, which int() truncates.
EstimateTokens(text) ==
    IF text = <<>> THEN 0
    ELSE LET sinhala_cjk == Sum([i \in 1..Len(text) |-> DenseChars(text[i])])
             other == TextLen(text) - sinhala_cjk
         IN  ((2 * sinhala_cjk + other) \div 4) + 1

\* RoutingContext(...): __post_init__ sets input_tokens from input_text
RoutingContext(intent, input_text, needs_json, sensitivity, retry_count) ==
    [intent |-> intent, input_text |-> input_text, needs_json |-> needs_json,
     sensitivity |-> sensitivity, retry_count |-> retry_count,
     input_tokens |-> EstimateTokens(input_text)]

-----------------------------------------------------------------------------
(* ModelRouter *)

CHEAP_GENERAL == "cheap_general"
STRUCTURED == "structured"
FALLBACK == "fallback"
SENSITIVE == "sensitive"
RoutingTier == {CHEAP_GENERAL, STRUCTURED, FALLBACK, SENSITIVE}

DEFAULT_TIERS ==
    [t \in RoutingTier |->
        CASE t = CHEAP_GENERAL ->
                [models |-> <<"deepseek/deepseek-chat", "groq/llama-3.3-70b-versatile">>,
                 max_input_tokens |-> 4000, max_output_tokens |-> 1024]
          [] t = STRUCTURED ->
                [models |-> <<"anthropic/claude-3-haiku-20240307", "openai/gpt-4o-mini">>,
                 max_input_tokens |-> 8000, max_output_tokens |-> 2048]
          [] t = FALLBACK ->
                [models |-> <<"openai/gpt-4o-mini", "anthropic/claude-3-haiku-20240307">>,
                 max_input_tokens |-> 16000, max_output_tokens |-> 4096]
          [] t = SENSITIVE ->
                [models |-> <<"anthropic/claude-3-haiku-20240307">>,
                 max_input_tokens |-> 8000, max_output_tokens |-> 2048]]

INTENT_TOKEN_LIMITS ==
    [i \in {"translate", "summarize", "format", "format_whatsapp",
            "format_telegram", "pii_redact", "search", "general"} |->
        CASE i = "translate" -> 512
          [] i = "summarize" -> 256
          [] i = "format" -> 256
          [] i = "format_whatsapp" -> 256
          [] i = "format_telegram" -> 512
          [] i = "pii_redact" -> 1024
          [] i = "search" -> 512
          [] i = "general" -> 1024]

\* the input-token count above which rule 4 applies
LargeInputTokens == 4000
\* rule 2 applying only above a retry count of 2
RetryEscalationAfter_Two == 1 + 1

\* the retry count above which rule 2 applies
RetryEscalationAfter == 1

\* _detect_json_requirement: JSON_PATTERNS joined by |, re.IGNORECASE
DetectJsonRequirement(text) ==
    \/ HasWord(text, "json")
    \/ HasWord(text, "structured")
    \/ HasWord(text, "schema")
    \/ \E i \in 1..Len(text) : text[i] = JsonLiteral
    \/ HasWordThenWord(text, "parse", "output")

\* _detect_sensitivity: SENSITIVITY_PATTERNS joined by |, re.IGNORECASE
DetectSensitivity(text) ==
    \/ HasWord(text, "nic")
    \/ HasWord(text, "password")
    \/ HasWord(text, "creditcard") \/ HasPhrase(text, "credit", "card")
    \/ HasWordThenWord(text, "bank", "account")
    \/ HasWord(text, "confidential")
    \/ HasWord(text, "private")
    \/ HasWord(text, "secret")
    \/ \E i \in 1..Len(text) : text[i] \in {NicOld, NicNew, PhoneIntl, PhoneLocal}

\* "retry_escalation_count_<n>", "large_input_<n>_tokens"
RetryReason(n) == "retry_escalation_count_" \o ToString(n)
LargeReason(n) == "large_input_" \o ToString(n) \o "_tokens"

\* the same rules with the retry rule tried before the sensitivity rule
RouteRule_RetryFirst(sensitivity, retry_count, needs_json, input_tokens) ==
    IF retry_count > RetryEscalationAfter THEN
        [tier |-> FALLBACK, reason |-> RetryReason(retry_count)]
    ELSE IF sensitivity THEN
        [tier |-> SENSITIVE, reason |-> "sensitive_content_detected"]
    ELSE IF needs_json THEN
        [tier |-> STRUCTURED, reason |-> "json_output_required"]
    ELSE IF input_tokens > LargeInputTokens THEN
        [tier |-> STRUCTURED, reason |-> LargeReason(input_tokens)]
    ELSE [tier |-> CHEAP_GENERAL, reason |-> "default_cheap_routing"]

\* the same rules with the large-input rule tried before the JSON rule
RouteRule_LargeFirst(sensitivity, retry_count, needs_json, input_tokens) ==
    IF sensitivity THEN
        [tier |-> SENSITIVE, reason |-> "sensitive_content_detected"]
    ELSE IF retry_count > RetryEscalationAfter THEN
        [tier |-> FALLBACK, reason |-> RetryReason(retry_count)]
    ELSE IF input_tokens > LargeInputTokens THEN
        [tier |-> STRUCTURED, reason |-> LargeReason(input_tokens)]
    ELSE IF needs_json THEN
        [tier |-> STRUCTURED, reason |-> "json_output_required"]
    ELSE [tier |-> CHEAP_GENERAL, reason |-> "default_cheap_routing"]

\* route(): the rule evaluation, first match wins
RouteRule(sensitivity, retry_count, needs_json, input_tokens) ==
    IF sensitivity THEN
        [tier |-> SENSITIVE, reason |-> "sensitive_content_detected"]
    ELSE IF retry_count > RetryEscalationAfter THEN
        [tier |-> FALLBACK, reason |-> RetryReason(retry_count)]
    ELSE IF needs_json THEN
        [tier |-> STRUCTURED, reason |-> "json_output_required"]
    ELSE IF input_tokens > LargeInputTokens THEN
        [tier |-> STRUCTURED, reason |-> LargeReason(input_tokens)]
    ELSE [tier |-> CHEAP_GENERAL, reason |-> "default_cheap_routing"]

\* route() with the tier's default limit used whatever the intent is
OutputLimit_TierDefault(intent, tier_config) == tier_config.max_output_tokens

\* route(): the output-token limit, intent-specific or the tier's default
OutputLimit(intent, tier_config) ==
    IF intent \in DOMAIN INTENT_TOKEN_LIMITS THEN INTENT_TOKEN_LIMITS[intent]
    ELSE tier_config.max_output_tokens

\* route(): the first model of the tier, or the hardcoded default
SelectModel(tier_config) ==
    IF tier_config.models # <<>> THEN tier_config.models[1]
    ELSE "deepseek/deepseek-chat"

\* ModelRouter.__init__: self.tiers = tiers or self.DEFAULT_TIERS.copy(), where
\* the empty function stands for both None and the empty dict
RouterTiers(tiers) == IF tiers = <<>> THEN DEFAULT_TIERS ELSE tiers

\* what a call of route() leaves its caller with when self.tiers[tier] raises
KeyError == [tier |-> "raised", error |-> "KeyError"]

\* ModelRouter.route(context) of a router whose tier table is tiers
Route(tiers, context) ==
    LET needs_json == context.needs_json \/ DetectJsonRequirement(context.input_text)
        sensitivity == context.sensitivity \/ DetectSensitivity(context.input_text)
        rule == RouteRule(sensitivity, context.retry_count, needs_json,
                          context.input_tokens)
        tier_config == tiers[rule.tier]
    IN  IF rule.tier \notin DOMAIN tiers THEN KeyError
        ELSE [tier |-> rule.tier,
              model |-> SelectModel(tier_config),
              max_output_tokens |-> OutputLimit(context.intent, tier_config),
              reason |-> rule.reason]

-----------------------------------------------------------------------------
(* IntentDetector *)

\* the words of the model that start with "summar" and with "doc"
StartsSummar == {"summarize", "summarise", "summary", "summaries"}
StartsDoc == {"doc", "docx", "docs", "document", "documents"}
\* the words of the model that end with "to" and with "in"
EndsTo == {"to", "into", "onto"}
EndsIn == {"in", "within"}

\* re.search(r'a\s+b\b', text): a word ending with a, then the word b
HasTailPhrase(t, enders, b) ==
    \E i \in 1..(Len(t) - 1) : Lower(t[i]) \in enders /\ Lower(t[i + 1]) = b

\* re.search(r'\ba\b.*\b(b1|b2|..)\b', text)
HasWordThenAny(t, a, bs) == \E b \in bs : HasWordThenWord(t, a, b)

\* INTENT_PATTERNS: whether any pattern of the intent matches the text
IntentMatches(intent, t) ==
    CASE intent = "translate" ->
            \/ HasWord(t, "translate")
            \/ \E i \in 1..Len(t) : t[i] = SinhalaTranslate
            \/ HasTailPhrase(t, EndsTo, "sinhala")
            \/ HasTailPhrase(t, EndsTo, "english")
            \/ HasTailPhrase(t, EndsIn, "sinhala")
            \/ HasTailPhrase(t, EndsIn, "english")
      [] intent = "summarize" ->
            \/ \E i \in 1..Len(t) : Lower(t[i]) \in StartsSummar
            \/ \E i \in 1..Len(t) : t[i] = SinhalaSummary
            \/ HasWord(t, "tldr")
            \/ HasWord(t, "brief")
            \/ HasWordThenWord(t, "short", "version")
      [] intent = "format_whatsapp" ->
            HasWord(t, "whatsapp") \/ HasPhrase(t, "wa", "format")
      [] intent = "format_telegram" ->
            HasWord(t, "telegram") \/ HasPhrase(t, "tg", "format")
      [] intent = "pii_redact" ->
            \/ HasWord(t, "redact")
            \/ HasWordThenAny(t, "hide", {"nic", "phone", "email"})
            \/ HasWordThenWord(t, "remove", "personal")
            \/ \E i \in 1..Len(t) : t[i] = SinhalaDelete
      [] intent = "excel" ->
            \/ HasWord(t, "excel") \/ HasWord(t, "spreadsheet")
            \/ HasWord(t, "xls") \/ HasWord(t, "xlsx") \/ HasWord(t, "openpyxl")
      [] intent = "word" ->
            \/ \E i \in 1..Len(t) : \E j \in (i + 1)..Len(t) :
                    Lower(t[i]) = "word" /\ Lower(t[j]) \in StartsDoc
            \/ HasWord(t, "doc") \/ HasWord(t, "docx")
      [] intent = "powerpoint" ->
            \/ HasWord(t, "powerpoint") \/ HasWord(t, "ppt") \/ HasWord(t, "pptx")
            \/ HasWord(t, "slide") \/ HasWord(t, "slides")
            \/ HasWord(t, "presentation")
      [] intent = "search" ->
            \/ HasWord(t, "search")
            \/ HasWordThenAny(t, "find", {"online", "web"})
            \/ HasPhrase(t, "look", "up")
            \/ HasWord(t, "google")
      [] OTHER -> FALSE

\* INTENT_PATTERNS: the intents in their declared order
IntentOrder ==
    <<"translate", "summarize", "format_whatsapp", "format_telegram",
      "pii_redact", "excel", "word", "powerpoint", "search">>

RECURSIVE DetectFrom(_, _)
DetectFrom(t, k) ==
    IF k > Len(IntentOrder) THEN "general"
    ELSE IF IntentMatches(IntentOrder[k], t) THEN IntentOrder[k]
    ELSE DetectFrom(t, k + 1)

RECURSIVE DetectLastFrom(_, _)
DetectLastFrom(t, k) ==
    IF k = 0 THEN "general"
    ELSE IF IntentMatches(IntentOrder[k], t) THEN IntentOrder[k]
    ELSE DetectLastFrom(t, k - 1)

\* detect with the intents tried in the reverse of their declared order
DetectIntent_LastDeclared(t) == DetectLastFrom(t, Len(IntentOrder))

\* IntentDetector.detect(text): the first intent with a matching pattern
DetectIntent(t) == DetectFrom(t, 1)

-----------------------------------------------------------------------------
(* UsageMetrics and UsageTracker *)

\* _estimate_cost: the price family a model name falls in ("x" in model_lower,
\* tried in the order deepseek, haiku, gpt-4o-mini, groq), for the model names
\* of the model
ModelFamily(model) ==
    CASE model \in {"deepseek/deepseek-chat"} -> "deepseek"
      [] model \in {"anthropic/claude-3-haiku-20240307"} -> "haiku"
      [] model \in {"openai/gpt-4o-mini"} -> "gpt-4o-mini"
      [] model \in {"groq/llama-3.3-70b-versatile"} -> "groq"
      [] OTHER -> "other"

\* COSTS and the conservative fallback: (input, output) price per million
\* tokens, in hundredths of a dollar
PricePerMillion(family) ==
    CASE family = "deepseek" -> <<14, 28>>
      [] family = "haiku" -> <<25, 125>>
      [] family = "gpt-4o-mini" -> <<15, 60>>
      [] family = "groq" -> <<0, 0>>
      [] OTHER -> <<50, 150>>

\* round(n / 100) to the nearest integer, a tie going to the even one
RoundHundredths(n) ==
    LET q == n \div 100
        r == n % 100
    IN  IF r < 50 THEN q
        ELSE IF r > 50 THEN q + 1
        ELSE IF q % 2 = 0 THEN q ELSE q + 1

\* _estimate_cost: round((in * input_cost + out * output_cost) / 1_000_000, 6),
\* kept in millionths of a dollar
EstimateCost(model, input_tokens, output_tokens) ==
    LET price == PricePerMillion(ModelFamily(model))
    IN  RoundHundredths(input_tokens * price[1] + output_tokens * price[2])

\* UsageMetrics(...): __post_init__ sets estimated_cost_usd
UsageMetrics(model, tier, input_tokens, output_tokens, latency_ms) ==
    [model |-> model, tier |-> tier, input_tokens |-> input_tokens,
     output_tokens |-> output_tokens, latency_ms |-> latency_ms,
     estimated_cost_usd |-> EstimateCost(model, input_tokens, output_tokens)]

\* UsageTracker(): the state after __init__ (the start time is left out)
NewTracker ==
    [total_input_tokens |-> 0, total_output_tokens |-> 0, total_cost_usd |-> 0,
     request_count |-> 0, metrics_history |-> <<>>]

\* the number of metrics the history keeps
HistoryCap == 100

\* record() with the newest entry dropped instead of the oldest
TrimHistory_DropNewest(history) ==
    IF Len(history) > HistoryCap THEN SubSeq(history, 1, Len(history) - 1) ELSE history

\* record(): if len(self.metrics_history) > 100: self.metrics_history.pop(0)
TrimHistory(history) ==
    IF Len(history) > HistoryCap THEN Tail(history) ELSE history

\* record() with the totals recomputed over the history that is kept
AddTotals_FromHistory(tracker, metrics) ==
    LET h == TrimHistory(Append(tracker.metrics_history, metrics))
    IN  [tracker EXCEPT
            !.total_input_tokens = Sum([i \in 1..Len(h) |-> h[i].input_tokens]),
            !.total_output_tokens = Sum([i \in 1..Len(h) |-> h[i].output_tokens]),
            !.total_cost_usd = Sum([i \in 1..Len(h) |-> h[i].estimated_cost_usd]),
            !.request_count = @ + 1]

\* record(): the running totals and the request count
AddTotals(tracker, metrics) ==
    [tracker EXCEPT
        !.total_input_tokens = @ + metrics.input_tokens,
        !.total_output_tokens = @ + metrics.output_tokens,
        !.total_cost_usd = @ + metrics.estimated_cost_usd,
        !.request_count = @ + 1]

\* UsageTracker.record(metrics): the tracker after the call
Record(tracker, metrics) ==
    [AddTotals(tracker, metrics) EXCEPT
        !.metrics_history = TrimHistory(Append(@, metrics))]

-----------------------------------------------------------------------------
(* PromptOptimizer (aggressive = False) on a text of words *)

\* COMPRESSIONS: the words of each phrase and the words replacing it.  Every
\* pattern ends in \s+, so a phrase is replaced only where a word follows it.
COMPRESSIONS ==
    << <<<<"please">>, <<>>>>,
       <<<<"could", "you">>, <<>>>>,
       <<<<"would", "you">>, <<>>>>,
       <<<<"i", "would", "like", "you", "to">>, <<>>>>,
       <<<<"i", "want", "you", "to">>, <<>>>>,
       <<<<"can", "you">>, <<>>>>,
       <<<<"in", "order", "to">>, <<"to">>>>,
       <<<<"due", "to", "the", "fact", "that">>, <<"because">>>>,
       <<<<"at", "this", "point", "in", "time">>, <<"now">>>>,
       <<<<"in", "the", "event", "that">>, <<"if">>>>,
       <<<<"for", "the", "purpose", "of">>, <<"to">>>>,
       <<<<"with", "regards", "to">>, <<"about">>>>,
       <<<<"with", "respect", "to">>, <<"about">>>>,
       <<<<"a", "large", "number", "of">>, <<"many">>>>,
       <<<<"a", "small", "number", "of">>, <<"few">>>>,
       <<<<"in", "spite", "of", "the", "fact", "that">>, <<"although">>>>,
       <<<<"the", "fact", "that">>, <<"that">>>> >>

\* whether the phrase stands at word i of t with a word after it
PhraseAt(t, phrase, i) ==
    /\ i + Len(phrase) <= Len(t)
    /\ \A k \in 1..Len(phrase) : Lower(t[i + k - 1]) = phrase[k]

RECURSIVE SubFrom(_, _, _, _)
SubFrom(t, phrase, repl, i) ==
    IF i > Len(t) THEN <<>>
    ELSE IF PhraseAt(t, phrase, i) THEN repl \o SubFrom(t, phrase, repl, i + Len(phrase))
    ELSE <<t[i]>> \o SubFrom(t, phrase, repl, i + 1)

RECURSIVE ApplyCompressions(_, _)
ApplyCompressions(t, k) ==
    IF k > Len(COMPRESSIONS) THEN t
    ELSE ApplyCompressions(SubFrom(t, COMPRESSIONS[k][1], COMPRESSIONS[k][2], 1), k + 1)

\* PromptOptimizer.optimize(text).  The whitespace and punctuation steps
\* change nothing in a text of words joined by single spaces.
Optimize(text) ==
    LET optimized == ApplyCompressions(text, 1)
        original_len == TextLen(text)
        optimized_len == TextLen(optimized)
        tokens_saved == (original_len - optimized_len) \div 4
    IN  [text |-> optimized, original_length |-> original_len,
         optimized_length |-> optimized_len,
         tokens_saved |-> IF tokens_saved > 0 THEN tokens_saved ELSE 0]

-----------------------------------------------------------------------------
(* PromptOptimizer on a text of characters (a sequence of 1-character       *)
(* strings), in both modes.  The regular expressions are matched as re.sub  *)
(* matches them: leftmost first, greedy, resuming after each match.         *)

\* one letter of the range U+0D80..U+0DFF
SinhalaLetter == "<si>"

\* the characters of the words the patterns and the texts are made of
Spell(w) ==
      CASE w = "Could" -> <<"C", "o", "u", "l", "d">>
        [] w = SinhalaDelete -> [i \in 1..WordChars(SinhalaDelete) |-> SinhalaLetter]
        [] w = "Please" -> <<"P", "l", "e", "a", "s", "e">>
        [] w = "a" -> <<"a">>
        [] w = "about" -> <<"a", "b", "o", "u", "t">>
        [] w = "actually" -> <<"a", "c", "t", "u", "a", "l", "l", "y">>
        [] w = "although" -> <<"a", "l", "t", "h", "o", "u", "g", "h">>
        [] w = "at" -> <<"a", "t">>
        [] w = "basically" -> <<"b", "a", "s", "i", "c", "a", "l", "l", "y">>
        [] w = "because" -> <<"b", "e", "c", "a", "u", "s", "e">>
        [] w = "can" -> <<"c", "a", "n">>
        [] w = "could" -> <<"c", "o", "u", "l", "d">>
        [] w = "displease" -> <<"d", "i", "s", "p", "l", "e", "a", "s", "e">>
        [] w = "do" -> <<"d", "o">>
        [] w = "due" -> <<"d", "u", "e">>
        [] w = "essentially" -> <<"e", "s", "s", "e", "n", "t", "i", "a", "l", "l", "y">>
        [] w = "event" -> <<"e", "v", "e", "n", "t">>
        [] w = "fact" -> <<"f", "a", "c", "t">>
        [] w = "few" -> <<"f", "e", "w">>
        [] w = "for" -> <<"f", "o", "r">>
        [] w = "help" -> <<"h", "e", "l", "p">>
        [] w = "i" -> <<"i">>
        [] w = "if" -> <<"i", "f">>
        [] w = "in" -> <<"i", "n">>
        [] w = "it" -> <<"i", "t">>
        [] w = "just" -> <<"j", "u", "s", "t">>
        [] w = "justice" -> <<"j", "u", "s", "t", "i", "c", "e">>
        [] w = "large" -> <<"l", "a", "r", "g", "e">>
        [] w = "like" -> <<"l", "i", "k", "e">>
        [] w = "many" -> <<"m", "a", "n", "y">>
        [] w = "me" -> <<"m", "e">>
        [] w = "now" -> <<"n", "o", "w">>
        [] w = "number" -> <<"n", "u", "m", "b", "e", "r">>
        [] w = "of" -> <<"o", "f">>
        [] w = "order" -> <<"o", "r", "d", "e", "r">>
        [] w = "please" -> <<"p", "l", "e", "a", "s", "e">>
        [] w = "point" -> <<"p", "o", "i", "n", "t">>
        [] w = "purpose" -> <<"p", "u", "r", "p", "o", "s", "e">>
        [] w = "quite" -> <<"q", "u", "i", "t", "e">>
        [] w = "really" -> <<"r", "e", "a", "l", "l", "y">>
        [] w = "regards" -> <<"r", "e", "g", "a", "r", "d", "s">>
        [] w = "respect" -> <<"r", "e", "s", "p", "e", "c", "t">>
        [] w = "simply" -> <<"s", "i", "m", "p", "l", "y">>
        [] w = "sinhala" -> <<"s", "i", "n", "h", "a", "l", "a">>
        [] w = "small" -> <<"s", "m", "a", "l", "l">>
        [] w = "spite" -> <<"s", "p", "i", "t", "e">>
        [] w = "that" -> <<"t", "h", "a", "t">>
        [] w = "the" -> <<"t", "h", "e">>
        [] w = "this" -> <<"t", "h", "i", "s">>
        [] w = "time" -> <<"t", "i", "m", "e">>
        [] w = "to" -> <<"t", "o">>
        [] w = "translate" -> <<"t", "r", "a", "n", "s", "l", "a", "t", "e">>
        [] w = "very" -> <<"v", "e", "r", "y">>
        [] w = "wait" -> <<"w", "a", "i", "t">>
        [] w = "want" -> <<"w", "a", "n", "t">>
        [] w = "with" -> <<"w", "i", "t", "h">>
        [] w = "would" -> <<"w", "o", "u", "l", "d">>
        [] w = "you" -> <<"y", "o", "u">>

RECURSIVE SpellAll(_, _)
\* the characters of a list of pieces, one after the other; a piece that is a
\* single character (a space, a newline, a punctuation mark) stands for itself
SpellAll(pieces, i) ==
    IF i > Len(pieces) THEN <<>>
    ELSE (IF pieces[i] \in {" ", "\n", "\t", ".", ",", "!", "?", ";", ":"}
          THEN <<pieces[i]>> ELSE Spell(pieces[i])) \o SpellAll(pieces, i + 1)

\* \s
IsSpace(c) == c \in {" ", "\n", "\t"}

\* [.,!?;:]
IsPunct(c) == c \in {".", ",", "!", "?", ";", ":"}

UpperLetters ==
    <<"A", "B", "C", "D", "E", "F", "G", "H", "I", "J", "K", "L", "M",
      "N", "O", "P", "Q", "R", "S", "T", "U", "V", "W", "X", "Y", "Z">>
LowerLetters ==
    <<"a", "b", "c", "d", "e", "f", "g", "h", "i", "j", "k", "l", "m",
      "n", "o", "p", "q", "r", "s", "t", "u", "v", "w", "x", "y", "z">>

\* re.IGNORECASE: the lower-case letter of an upper-case letter
LowerChar(c) ==
    IF \E k \in 1..26 : UpperLetters[k] = c
    THEN LowerLetters[CHOOSE k \in 1..26 : UpperLetters[k] = c]
    ELSE c

\* \w, for the characters of the model
IsWordChar(c) ==
    \/ \E k \in 1..26 : c = LowerLetters[k] \/ c = UpperLetters[k]
    \/ c \in {"0", "1", "2", "3", "4", "5", "6", "7", "8", "9", "_", SinhalaLetter}

RECURSIVE SkipSpaces(_, _)
\* the first index at or after i that holds no whitespace
SkipSpaces(text, i) ==
    IF i <= Len(text) /\ IsSpace(text[i]) THEN SkipSpaces(text, i + 1) ELSE i

\* whether the letters of w stand at index i of the text, ignoring case
WordAt(text, i, w) ==
    /\ i + Len(w) - 1 <= Len(text)
    /\ \A k \in 1..Len(w) : text[i + k - 1] = w[k] \/ LowerChar(text[i + k - 1]) = w[k]

RECURSIVE MatchPhrase(_, _, _, _)
\* a pattern word1\s+word2\s+...wordn\s+ matched at index i, from its k-th
\* word on: the index after the match, 0 when it does not match
MatchPhrase(text, i, phrase, k) ==
    IF k > Len(phrase) THEN i
    ELSE LET after == i + Len(phrase[k])
         IN  IF /\ WordAt(text, i, phrase[k])
                /\ after <= Len(text)
                /\ IsSpace(text[after])
             THEN MatchPhrase(text, SkipSpaces(text, after), phrase, k + 1)
             ELSE 0

\* the smallest index of a set of indices, 0 when the set is empty
FirstOf(indices) ==
    IF indices = {} THEN 0 ELSE CHOOSE j \in indices : \A k \in indices : j <= k

RECURSIVE SubPhrase(_, _, _, _)
\* pattern.sub(replacement, text), from index i on: the text up to the next
\* match, the replacement, and the rest from the end of the match on
SubPhrase(text, phrase, replacement, i) ==
    LET j == FirstOf({m \in i..Len(text) : MatchPhrase(text, m, phrase, 1) > 0})
    IN  IF j = 0 THEN SubSeq(text, i, Len(text))
        ELSE SubSeq(text, i, j - 1) \o replacement
             \o SubPhrase(text, phrase, replacement, MatchPhrase(text, j, phrase, 1))

\* the pattern and the replacement of the k-th entry of COMPRESSIONS, in
\* characters: a replacement word is followed by a space
PhraseChars(k) == [j \in 1..Len(COMPRESSIONS[k][1]) |-> Spell(COMPRESSIONS[k][1][j])]
ReplacementChars(k) ==
    IF COMPRESSIONS[k][2] = <<>> THEN <<>> ELSE Spell(COMPRESSIONS[k][2][1]) \o <<" ">>

\* whether the pattern matches somewhere in the text
PhraseIn(text, phrase) ==
    \E m \in 1..Len(text) : MatchPhrase(text, m, phrase, 1) > 0

RECURSIVE CompressFrom(_, _)
\* optimize(), step 2: the compressions applied one after the other, from the
\* k-th on; a pattern that matches nowhere leaves the text as it is, so the
\* next one applied is the first that matches
CompressFrom(text, k) ==
    LET n == FirstOf({c \in k..Len(COMPRESSIONS) : PhraseIn(text, PhraseChars(c))})
    IN  IF n = 0 THEN text
        ELSE CompressFrom(SubPhrase(text, PhraseChars(n), ReplacementChars(n), 1), n + 1)

RECURSIVE CollapseSpaces(_, _)
\* re.sub(r'\s+', ' ', text), from index i on
CollapseSpaces(text, i) ==
    LET j == FirstOf({m \in i..Len(text) : IsSpace(text[m])})
    IN  IF j = 0 THEN SubSeq(text, i, Len(text))
        ELSE SubSeq(text, i, j - 1) \o <<" ">>
             \o CollapseSpaces(text, SkipSpaces(text, j))

RECURSIVE RStrip(_)
RStrip(text) ==
    IF text # <<>> /\ IsSpace(text[Len(text)])
    THEN RStrip(SubSeq(text, 1, Len(text) - 1)) ELSE text

\* text.strip()
Strip(text) ==
    LET right == RStrip(text)
    IN  SubSeq(right, SkipSpaces(right, 1), Len(right))

RECURSIVE SkipRun(_, _, _)
\* the first index at or after i that does not hold the character c
SkipRun(text, i, c) ==
    IF i <= Len(text) /\ text[i] = c THEN SkipRun(text, i + 1, c) ELSE i

RECURSIVE CollapseDots(_, _)
\* re.sub(r'\.{2,}', '.', text), from index i on
CollapseDots(text, i) ==
    LET j == FirstOf({m \in i..Len(text) :
                        text[m] = "." /\ SkipRun(text, m, ".") >= m + 2})
    IN  IF j = 0 THEN SubSeq(text, i, Len(text))
        ELSE SubSeq(text, i, j - 1) \o <<".">>
             \o CollapseDots(text, SkipRun(text, j, "."))

\* \s+([.,!?;:]) matched at index m: the index of the punctuation mark, 0 when
\* it does not match
SpacedPunctAt(text, m) ==
    LET e == SkipSpaces(text, m)
    IN  IF e > m /\ e <= Len(text) /\ IsPunct(text[e]) THEN e ELSE 0

RECURSIVE TightenPunct(_, _)
\* re.sub(r'\s+([.,!?;:])', r'\1', text), from index i on
TightenPunct(text, i) ==
    LET j == FirstOf({m \in i..Len(text) : SpacedPunctAt(text, m) > 0})
        e == SpacedPunctAt(text, j)
    IN  IF j = 0 THEN SubSeq(text, i, Len(text))
        ELSE SubSeq(text, i, j - 1) \o <<text[e]>> \o TightenPunct(text, e + 1)

RECURSIVE CollapseNewlines(_, _)
\* re.sub(r'\n{3,}', '\n\n', text), from index i on
CollapseNewlines(text, i) ==
    LET j == FirstOf({m \in i..Len(text) :
                        text[m] = "\n" /\ SkipRun(text, m, "\n") >= m + 3})
    IN  IF j = 0 THEN SubSeq(text, i, Len(text))
        ELSE SubSeq(text, i, j - 1) \o <<"\n", "\n">>
             \o CollapseNewlines(text, SkipRun(text, j, "\n"))

\* the filler words of _aggressive_compress, in its order
Fillers ==
    <<"actually", "basically", "essentially", "simply", "just", "really", "very",
      "quite">>

\* \bfiller\b\s* matched at index i: the index after the match, 0 when it
\* does not match
MatchFiller(text, i, w) ==
    LET after == i + Len(w)
    IN  IF /\ WordAt(text, i, w)
           /\ (i = 1 \/ ~IsWordChar(text[i - 1]))
           /\ (after > Len(text) \/ ~IsWordChar(text[after]))
        THEN SkipSpaces(text, after)
        ELSE 0

RECURSIVE SubFiller(_, _, _)
\* re.sub(filler + r'\s*', '', text, flags=re.IGNORECASE), from index i on
SubFiller(text, w, i) ==
    LET j == FirstOf({m \in i..Len(text) : MatchFiller(text, m, w) > 0})
    IN  IF j = 0 THEN SubSeq(text, i, Len(text))
        ELSE SubSeq(text, i, j - 1) \o SubFiller(text, w, MatchFiller(text, j, w))

\* whether the filler matches somewhere in the text
FillerIn(text, w) == \E m \in 1..Len(text) : MatchFiller(text, m, w) > 0

RECURSIVE AggressiveFrom(_, _)
\* _aggressive_compress(text): the fillers removed one after the other, from
\* the k-th on; the next one applied is the first that matches
AggressiveFrom(text, k) ==
    LET n == FirstOf({c \in k..Len(Fillers) : FillerIn(text, Spell(Fillers[c]))})
    IN  IF n = 0 THEN text
        ELSE AggressiveFrom(SubFiller(text, Spell(Fillers[n]), 1), n + 1)

\* optimize(): the tokens saved with the difference of the lengths rounded up
TokensSaved_RoundedUp(original_len, optimized_len) ==
    LET tokens_saved == (original_len - optimized_len + 3) \div 4
    IN  IF tokens_saved > 0 THEN tokens_saved ELSE 0

\* optimize(): tokens_saved = (original_len - optimized_len) // 4, and
\* max(0, tokens_saved) in the result
TokensSaved(original_len, optimized_len) ==
    LET tokens_saved == (original_len - optimized_len) \div 4
    IN  IF tokens_saved > 0 THEN tokens_saved ELSE 0

\* the text optimize() returns
OptimizedText(text, aggressive) ==
    LET normalized == Strip(CollapseSpaces(text, 1))
        compressed == CompressFrom(normalized, 1)
        punctuated == TightenPunct(CollapseDots(compressed, 1), 1)
        spaced == CollapseNewlines(punctuated, 1)
    IN  IF aggressive THEN AggressiveFrom(spaced, 1) ELSE spaced

\* PromptOptimizer(aggressive).optimize(text)
OptimizeText(text, aggressive) ==
    LET optimized == OptimizedText(text, aggressive)
    IN  [text |-> optimized,
         original_length |-> Len(text),
         optimized_length |-> Len(optimized),
         tokens_saved |-> TokensSaved(Len(text), Len(optimized)),
         strategy |-> "prompt_compression"]

\* RoutingContext._estimate_tokens on a text of characters
EstimateText(text) ==
    IF text = <<>> THEN 0
    ELSE LET sinhala_cjk == Cardinality({i \in 1..Len(text) : text[i] = SinhalaLetter})
             other == Len(text) - sinhala_cjk
         IN  ((2 * sinhala_cjk + other) \div 4) + 1

-----------------------------------------------------------------------------
(* ResponseTruncator on a text of characters (a sequence of 1-character       *)
(* strings; "\n" is the newline)                                            *)

\* text[:n]
Prefix(text, n) == SubSeq(text, 1, IF n < Len(text) THEN n ELSE Len(text))

\* truncated.rfind(marker) for a two-character marker: the 0-based index of
\* its last occurrence, -1 when there is none
RFind2(text, a, b) ==
    LET hits == {i \in 1..(Len(text) - 1) : text[i] = a /\ text[i + 1] = b}
    IN  IF hits = {} THEN -1 ELSE (CHOOSE i \in hits : \A j \in hits : j <= i) - 1

\* truncated.rfind(' ')
RFind1(text, a) ==
    LET hits == {i \in 1..Len(text) : text[i] = a}
    IN  IF hits = {} THEN -1 ELSE (CHOOSE i \in hits : \A j \in hits : j <= i) - 1

Ellipsis == <<".", ".", ".">>

\* the end markers in the order truncate() tries them
EndMarkers ==
    << <<".", " ">>, <<"!", " ">>, <<"?", " ">>,
       <<".", "\n">>, <<"!", "\n">>, <<"?", "\n">> >>

RECURSIVE SentenceCut(_, _, _)
\* the loop over the end markers: the cut text of the first marker whose last
\* occurrence lies after 50% of max_chars, or the word-boundary fallback
SentenceCut(truncated, max_chars, k) ==
    IF k > Len(EndMarkers) THEN
        LET last_space == RFind1(truncated, " ")
        IN  IF 10 * last_space > 7 * max_chars
            THEN Prefix(truncated, last_space) \o Ellipsis
            ELSE truncated \o Ellipsis
    ELSE
        LET last_end == RFind2(truncated, EndMarkers[k][1], EndMarkers[k][2])
        IN  IF 2 * last_end > max_chars
            THEN Prefix(truncated, last_end + 1)
            ELSE SentenceCut(truncated, max_chars, k + 1)

\* truncate() with a text of exactly max_chars characters treated as too long
Truncate_StrictFit(text, max_tokens, strategy) ==
    LET max_chars == max_tokens * 4
    IN  IF Len(text) < max_chars THEN text
        ELSE IF strategy = "hard" THEN Prefix(text, max_chars) \o Ellipsis
        ELSE SentenceCut(Prefix(text, max_chars), max_chars, 1)

\* ResponseTruncator.truncate(text, max_tokens, strategy)
Truncate(text, max_tokens, strategy) ==
    LET max_chars == max_tokens * 4
    IN  IF Len(text) <= max_chars THEN text
        ELSE IF strategy = "hard" THEN Prefix(text, max_chars) \o Ellipsis
        ELSE SentenceCut(Prefix(text, max_chars), max_chars, 1)

-----------------------------------------------------------------------------
(* KadiyaProvider *)

\* None, for a model override or a session key that is not given
None == "<None>"

\* dict.get(key, default) of a dict modelled as a function
Get(dict, key, default) == IF key \in DOMAIN dict THEN dict[key] ELSE default

\* dict[key] = value
Put(dict, key, value) ==
    [k \in DOMAIN dict \cup {key} |-> IF k = key THEN value ELSE dict[k]]

\* TokenLimitsConfig.max_output_tokens of the default KadiyaConfig
ConfigMaxOutputTokens == 2048

Min2(a, b) == IF a <= b THEN a ELSE b
Min3(a, b, c) == Min2(a, Min2(b, c))

RECURSIVE LastUserFrom(_, _)
LastUserFrom(messages, i) ==
    IF i = 0 THEN <<>>
    ELSE IF messages[i].role = "user" THEN messages[i].content
    ELSE LastUserFrom(messages, i - 1)

\* _get_last_user_message(messages), for messages whose content is a string
GetLastUserMessage(messages) == LastUserFrom(messages, Len(messages))

\* "json" in content or "structured" in content, content lower-cased: a
\* substring test, so on the words of the model that hold either
HoldsJsonOrStructured(text) ==
    \E i \in 1..Len(text) :
        Lower(text[i]) \in {"json", "jsonl", "structured", "unstructured"}

\* _detect_json_need(messages, tools)
DetectJsonNeed(messages, tools) ==
    \/ tools # <<>>
    \/ \E i \in 1..Len(messages) :
          messages[i].role = "system" /\ HoldsJsonOrStructured(messages[i].content)

\* _optimize_messages: one message, optimized whatever its role
OptimizeMessage_AnyRole(msg) ==
    IF TextLen(msg.content) > 100 /\ Optimize(msg.content).tokens_saved > 5
    THEN [msg EXCEPT !.content = Optimize(msg.content).text]
    ELSE msg

\* _optimize_messages: one message
OptimizeMessage(msg) ==
    IF msg.role = "user" /\ TextLen(msg.content) > 100
         /\ Optimize(msg.content).tokens_saved > 5
    THEN [msg EXCEPT !.content = Optimize(msg.content).text]
    ELSE msg

\* _optimize_messages(messages)
OptimizeMessages(messages) == [i \in 1..Len(messages) |-> OptimizeMessage(messages[i])]

\* every call filed under the key 'default', whatever key it passes
SessionKeyOf_Shared(session_key) == "default"

\* kwargs.get("session_key", "default")
SessionKeyOf(session_key) == IF session_key = None THEN "default" ELSE session_key

\* chat(): max_output_tokens of the decision made for a model override
OverrideCeiling(max_tokens) == Min2(max_tokens, ConfigMaxOutputTokens)

\* chat(): the routing decision, with or without a model override
ChatDecision(routed, model, max_tokens) ==
    IF model # None THEN
        [tier |-> routed.tier, model |-> model,
         max_output_tokens |-> OverrideCeiling(max_tokens),
         reason |-> "model_override"]
    ELSE routed

\* chat(): the ceiling of the decision sent as it is
EffectiveMaxTokens_DecisionOnly(decision, max_tokens) == decision.max_output_tokens

\* chat(): effective_max_tokens
EffectiveMaxTokens(decision, max_tokens) ==
    Min3(decision.max_output_tokens, max_tokens, ConfigMaxOutputTokens)

\* chat(): the retry count written when the send raised, without the increment
RetryAfterFailure_Same(retry_count) == retry_count

\* chat(): the retry count written when the send raised
RetryAfterFailure(retry_count) == retry_count + 1

\* chat(): the retry count written when the send returned, one less than read
RetryAfterSuccess_Decrement(retry_count) ==
    IF retry_count > 0 THEN retry_count - 1 ELSE 0

\* chat(): the retry count written when the send returned
RetryAfterSuccess(retry_count) == 0

\* chat() from its start to `await self.base.chat(...)`: the locals of the
\* suspended call and the arguments handed to the transport
ChatFrame(id, request, counts) ==
    LET user_message == GetLastUserMessage(request.messages)
        intent == DetectIntent(user_message)
        session_key == SessionKeyOf(request.session_key)
        retry_count == Get(counts, session_key, 0)
        context == RoutingContext(intent, user_message,
                                  DetectJsonNeed(request.messages, request.tools),
                                  FALSE, retry_count)
        routed == Route(DEFAULT_TIERS, context)
        decision == ChatDecision(routed, request.model, request.max_tokens)
        effective_max_tokens == EffectiveMaxTokens(decision, request.max_tokens)
    IN  [id |-> id, request |-> request, session_key |-> session_key,
         retry_count |-> retry_count, context |-> context, routed |-> routed,
         decision |-> decision, effective_max_tokens |-> effective_max_tokens,
         sent |-> << [messages |-> OptimizeMessages(request.messages),
                      tools |-> request.tools, model |-> decision.model,
                      max_tokens |-> effective_max_tokens] >>]

\* chat(): the UsageMetrics built from the response
ChatMetrics(frame, response) ==
    UsageMetrics(frame.decision.model, frame.decision.tier,
                 Get(response.usage, "prompt_tokens", frame.context.input_tokens),
                 Get(response.usage, "completion_tokens", 0),
                 response.latency_ms)

\* chat(): the content returned, truncated if it is over the budget (a
\* content of None and the empty content are both the empty sequence)
ChatContent(frame, response) ==
    IF response.content # <<>>
         /\ Len(response.content) > frame.effective_max_tokens * 4
    THEN Truncate(response.content, frame.effective_max_tokens, "smart")
    ELSE response.content

-----------------------------------------------------------------------------
(* The inputs the model draws from *)

UserMsg(text) == [role |-> "user", content |-> text]
SystemMsg(text) == [role |-> "system", content |-> text]
AssistantMsg(text) == [role |-> "assistant", content |-> text]

\* the session keys a caller passes (None: no session_key argument)
SessionArgs == {None, "alice"}
SessionKeys == {SessionKeyOf(k) : k \in SessionArgs}

\* calls of chat(): messages, tools, model override and max_tokens
PlainRequest ==
    [messages |-> <<UserMsg(<<"hello", "there">>)>>,
     tools |-> <<>>, model |-> None, max_tokens |-> 4096]
SensitiveRequest ==
    [messages |-> <<UserMsg(<<"my", "Password">>)>>,
     tools |-> <<>>, model |-> None, max_tokens |-> 4096]
SummarizeOverrideRequest ==
    [messages |-> <<UserMsg(<<"summarize", "this">>)>>,
     tools |-> <<>>, model |-> "openai/gpt-4o", max_tokens |-> 4096]
TranslateOverrideRequest ==
    [messages |-> <<SystemMsg(<<"reply", "in", "json">>),
                    UserMsg(<<"Translate", "this">>), AssistantMsg(<<"ok">>)>>,
     tools |-> <<>>, model |-> "openai/gpt-4o", max_tokens |-> 2]
ExcelOverrideRequest ==
    [messages |-> <<UserMsg(<<"make", "a", "spreadsheet">>)>>,
     tools |-> <<"write_file">>, model |-> "deepseek/deepseek-chat", max_tokens |-> 3000]
LargeRequest ==
    [messages |-> <<UserMsg(<<FillerOver>>)>>,
     tools |-> <<>>, model |-> None, max_tokens |-> 512]

\* the calls made in the specification of one call at a time
Requests ==
    {PlainRequest, SensitiveRequest, SummarizeOverrideRequest,
     TranslateOverrideRequest, ExcelOverrideRequest, LargeRequest}

\* the calls made in the specifications of concurrent sessions
SessionRequests == {PlainRequest, SensitiveRequest, SummarizeOverrideRequest}

\* what the transport returns: content, usage and the latency measured
Responses ==
    { [content |-> <<"o", "k">>,
       usage |-> [k \in {"prompt_tokens", "completion_tokens"} |->
                     IF k = "prompt_tokens" THEN 12 ELSE 7],
       latency_ms |-> 40],
      [content |-> <<"Y", "e", "s", ".", " ", "a", "n", "d", " ", "m", "o", "r", "e">>,
       usage |-> <<>>,
       latency_ms |-> 0] }

\* what the transport returns in the specifications of concurrent sessions
SessionResponses == {r \in Responses : r.usage # <<>>}

-----------------------------------------------------------------------------
(* The dispatcher: chat() calls in flight on one event loop.  A call runs   *)
(* without interruption from its start to its only await, and from the      *)
(* outcome of the awaited send to its return or raise.                      *)

NoFrame == [id |-> 0]
NoDecision == [tier |-> "none"]
NoContext == [intent |-> "none"]

\* the positions of `last`
NoStep == [op |-> "none", frame |-> NoFrame, content |-> <<>>]

\* no call of a stateless component is under way
NoCall == [op |-> "none"]

RouterVars == <<rt_context, rt_tiers, rt_decision>>
DispatchVars == <<retry_counts, frames, calls, outcomes>>
SideVars == <<threads, call>>

\* no record() call runs on a thread and no stateless component is called
SideIdle ==
    /\ threads = <<>>
    /\ call = NoCall

RouterIdle ==
    /\ rt_context = NoContext
    /\ rt_tiers = DEFAULT_TIERS
    /\ rt_decision = NoDecision

DispatchIdle ==
    /\ retry_counts = <<>>
    /\ frames = <<>>
    /\ calls = 0
    /\ outcomes = [k \in SessionKeys |-> <<>>]

\* KadiyaProvider.__init__
Init ==
    /\ RouterIdle
    /\ DispatchIdle
    /\ usage_tracker = NewTracker
    /\ recorded = <<>>
    /\ last = NoStep
    /\ SideIdle

\* a call of chat(messages, tools, model, max_tokens, session_key=...) up to
\* its await: the transport is called once with the frame's arguments
ChatStart(r, k) ==
    LET request == [messages |-> r.messages, tools |-> r.tools, model |-> r.model,
                    max_tokens |-> r.max_tokens, session_key |-> k]
        frame == ChatFrame(calls + 1, request, retry_counts)
    IN  /\ calls < MaxCalls
        /\ Cardinality(DOMAIN frames) < MaxInFlight
        /\ calls' = calls + 1
        /\ frames' = Put(frames, calls + 1, frame)
        /\ last' = [op |-> "start", frame |-> frame, content |-> <<>>]
        /\ UNCHANGED <<retry_counts, usage_tracker, outcomes, recorded, RouterVars,
                       SideVars>>

\* the frames without the call id
Drop(fs, id) == [i \in DOMAIN fs \ {id} |-> fs[i]]

\* the awaited send returns: reset the retry count, record the usage,
\* truncate the content, return the response
SendReturns(id, response) ==
    LET frame == frames[id]
        metrics == ChatMetrics(frame, response)
    IN  /\ retry_counts' = Put(retry_counts, frame.session_key,
                               RetryAfterSuccess(frame.retry_count))
        /\ usage_tracker' = Record(usage_tracker, metrics)
        /\ recorded' = Append(recorded, metrics)
        /\ frames' = Drop(frames, id)
        /\ outcomes' = [outcomes EXCEPT ![frame.session_key] =
                            Append(@, [kind |-> "returned", read |-> frame.retry_count])]
        /\ last' = [op |-> "returned", frame |-> frame,
                    content |-> ChatContent(frame, response)]
        /\ UNCHANGED <<calls, RouterVars, SideVars>>

\* the awaited send raises: increment the retry count and re-raise
SendRaises(id) ==
    LET frame == frames[id]
    IN  /\ retry_counts' = Put(retry_counts, frame.session_key,
                               RetryAfterFailure(frame.retry_count))
        /\ frames' = Drop(frames, id)
        /\ outcomes' = [outcomes EXCEPT ![frame.session_key] =
                            Append(@, [kind |-> "raised", read |-> frame.retry_count])]
        /\ last' = [op |-> "raised", frame |-> frame, content |-> <<>>]
        /\ UNCHANGED <<calls, usage_tracker, recorded, RouterVars, SideVars>>

Next ==
    \/ \E r \in SessionRequests, k \in SessionArgs : ChatStart(r, k)
    \/ \E id \in DOMAIN frames, response \in SessionResponses :
          SendReturns(id, response)
    \/ \E id \in DOMAIN frames : SendRaises(id)

\* chat() under concurrent request handling
Spec == Init /\ [][Next]_vars

\* whether a call of the session key is suspended at the transport
InFlight(key) == \E id \in DOMAIN frames : frames[id].session_key = key

NextSeq ==
    \/ \E r \in SessionRequests, k \in SessionArgs :
          ~InFlight(SessionKeyOf(k)) /\ ChatStart(r, k)
    \/ \E id \in DOMAIN frames, response \in SessionResponses :
          SendReturns(id, response)
    \/ \E id \in DOMAIN frames : SendRaises(id)

\* chat() with the requests of one session issued one after another
SpecSeq == Init /\ [][NextSeq]_vars

NextChat ==
    \/ \E r \in Requests, k \in SessionArgs :
          frames = <<>> /\ calls < MaxSoloCalls /\ ChatStart(r, k)
    \/ \E id \in DOMAIN frames, response \in Responses : SendReturns(id, response)
    \/ \E id \in DOMAIN frames : SendRaises(id)

\* chat() called by one caller, one call at a time
SpecChat == Init /\ [][NextChat]_vars

\* calls of chat() that ask for no token and for one token
ZeroTokensRequest ==
    [messages |-> <<UserMsg(<<"hello", "there">>)>>,
     tools |-> <<>>, model |-> None, max_tokens |-> 0]
OneTokenOverrideRequest ==
    [messages |-> <<UserMsg(<<"summarize", "this">>)>>,
     tools |-> <<>>, model |-> "openai/gpt-4o", max_tokens |-> 1]

BudgetRequests == Requests \cup {ZeroTokensRequest, OneTokenOverrideRequest}

NextBudget ==
    \/ \E r \in BudgetRequests, k \in SessionArgs :
          frames = <<>> /\ calls < MaxSoloCalls /\ ChatStart(r, k)
    \/ \E id \in DOMAIN frames, response \in Responses : SendReturns(id, response)
    \/ \E id \in DOMAIN frames : SendRaises(id)

\* chat() called one call at a time, with small values of max_tokens too
SpecBudget == Init /\ [][NextBudget]_vars

\* calls of chat() with an empty message list and no tools
EmptyRequest ==
    [messages |-> <<>>, tools |-> <<>>, model |-> None, max_tokens |-> 4096]
EmptyOverrideRequest ==
    [messages |-> <<>>, tools |-> <<>>, model |-> "openai/gpt-4o", max_tokens |-> 4096]
DegenerateRequests == {EmptyRequest, EmptyOverrideRequest, PlainRequest}

NextDegenerate ==
    \/ \E r \in DegenerateRequests, k \in SessionArgs :
          frames = <<>> /\ ChatStart(r, k)
    \/ \E id \in DOMAIN frames, response \in Responses : SendReturns(id, response)
    \/ \E id \in DOMAIN frames : SendRaises(id)

\* chat() called with degenerate requests, one call at a time
SpecDegenerate == Init /\ [][NextDegenerate]_vars

-----------------------------------------------------------------------------
(* ModelRouter.route() called directly on a context *)

\* the input texts of the contexts
RouteTexts ==
    { <<>>,
      <<"hello", "there">>,
      <<"return", "JSON">>,
      <<"my", "Password">>,
      <<"id", NicOld, "as", "json">>,
      <<FillerAt>>,
      <<FillerOver>>,
      <<"schema", FillerOver>> }

\* the intents of the contexts: in the limit table or not
RouteIntents == {"general", "summarize", "excel", "no_such_intent"}

\* the tier tables of the routers
TierTables ==
    { DEFAULT_TIERS,
      [DEFAULT_TIERS EXCEPT ![CHEAP_GENERAL].models = <<>>,
                            ![FALLBACK].max_output_tokens = 3000] }

RouteContexts ==
    { RoutingContext(i, t, j, s, n) :
        i \in RouteIntents, t \in RouteTexts, j \in BOOLEAN, s \in BOOLEAN,
        n \in 0..MaxRetry }

\* a router and a context it is about to be called with
InitRoute ==
    /\ rt_context \in RouteContexts
    /\ rt_tiers \in TierTables
    /\ rt_decision = NoDecision
    /\ DispatchIdle
    /\ usage_tracker = NewTracker
    /\ recorded = <<>>
    /\ last = NoStep
    /\ SideIdle

\* decision = router.route(context)
RouteCall ==
    /\ rt_decision = NoDecision
    /\ rt_decision' = Route(rt_tiers, rt_context)
    /\ UNCHANGED <<rt_context, rt_tiers, DispatchVars, usage_tracker, recorded, last,
                   SideVars>>

\* the caller builds the next context
RouteNext ==
    /\ rt_decision # NoDecision
    /\ rt_context' \in RouteContexts
    /\ rt_decision' = NoDecision
    /\ UNCHANGED <<rt_tiers, DispatchVars, usage_tracker, recorded, last, SideVars>>

NextRoute == RouteCall \/ RouteNext

SpecRoute == InitRoute /\ [][NextRoute]_vars

\* the tier tables a router can be constructed with: none, a table with an
\* entry for every tier, and tables with entries for some tiers only
GivenTierTables ==
    TierTables \cup
    { <<>>,
      [t \in {CHEAP_GENERAL} |-> [models |-> <<"groq/llama-3.3-70b-versatile">>,
                                   max_input_tokens |-> 4000,
                                   max_output_tokens |-> 1024]],
      [t \in RoutingTier \ {SENSITIVE} |-> DEFAULT_TIERS[t]] }

\* ModelRouter(tiers) and a context route() is about to be called with
InitTiers ==
    /\ rt_context \in RouteContexts
    /\ \E tiers \in GivenTierTables : rt_tiers = RouterTiers(tiers)
    /\ rt_decision = NoDecision
    /\ DispatchIdle
    /\ usage_tracker = NewTracker
    /\ recorded = <<>>
    /\ last = NoStep
    /\ SideIdle

\* route() of routers constructed with any tier table
SpecTiers == InitTiers /\ [][NextRoute]_vars

-----------------------------------------------------------------------------
(* UsageTracker.record() called directly *)

\* the metrics of the i-th call, for the first PreRecorded calls
EarlierMetrics(i) == UsageMetrics("deepseek/deepseek-chat", CHEAP_GENERAL, i, 2 * i, i)

\* the metrics of the calls after them
SampleMetrics ==
    { UsageMetrics("deepseek/deepseek-chat", CHEAP_GENERAL, 12, 7, 40),
      UsageMetrics("anthropic/claude-3-haiku-20240307", SENSITIVE, 3, 0, 0),
      UsageMetrics("openai/gpt-4o", FALLBACK, 4001, 250, 1200) }

\* UsageTracker()
InitTracker ==
    /\ RouterIdle
    /\ DispatchIdle
    /\ last = NoStep
    /\ usage_tracker = NewTracker
    /\ recorded = <<>>
    /\ SideIdle

\* tracker.record(metrics)
RecordCall(metrics) ==
    /\ usage_tracker' = Record(usage_tracker, metrics)
    /\ recorded' = Append(recorded, metrics)
    /\ UNCHANGED <<RouterVars, DispatchVars, last, SideVars>>

\* one of the first PreRecorded calls of record()
RecordEarlier ==
    /\ Len(recorded) < PreRecorded
    /\ RecordCall(EarlierMetrics(Len(recorded) + 1))

\* one of the MaxRecords calls of record() after them
RecordSample ==
    /\ Len(recorded) >= PreRecorded
    /\ Len(recorded) < PreRecorded + MaxRecords
    /\ \E metrics \in SampleMetrics : RecordCall(metrics)

NextTracker == RecordEarlier \/ RecordSample

SpecTracker == InitTracker /\ [][NextTracker]_vars

-----------------------------------------------------------------------------
(* UsageTracker.record() called from several threads.  The interpreter runs *)
(* one thread at a time and may switch threads between any two steps of a   *)
(* statement: `self.x += v` reads self.x, adds, and writes self.x back;     *)
(* list.append, len and list.pop are single steps.                          *)

Threads == 1..MaxThreads

\* a record(metrics) call that has just been entered
NewRecordFrame(metrics) == [pc |-> "load_input", metrics |-> metrics, tmp |-> 0]

\* one step of a record() call on the tracker: the tracker and the frame after
RecordStep(tracker, f) ==
    CASE f.pc = "load_input" ->
            [tracker |-> tracker,
             frame |-> [f EXCEPT !.pc = "store_input",
                                 !.tmp = tracker.total_input_tokens]]
      [] f.pc = "store_input" ->
            [tracker |-> [tracker EXCEPT
                            !.total_input_tokens = f.tmp + f.metrics.input_tokens],
             frame |-> [f EXCEPT !.pc = "load_output"]]
      [] f.pc = "load_output" ->
            [tracker |-> tracker,
             frame |-> [f EXCEPT !.pc = "store_output",
                                 !.tmp = tracker.total_output_tokens]]
      [] f.pc = "store_output" ->
            [tracker |-> [tracker EXCEPT
                            !.total_output_tokens = f.tmp + f.metrics.output_tokens],
             frame |-> [f EXCEPT !.pc = "load_cost"]]
      [] f.pc = "load_cost" ->
            [tracker |-> tracker,
             frame |-> [f EXCEPT !.pc = "store_cost", !.tmp = tracker.total_cost_usd]]
      [] f.pc = "store_cost" ->
            [tracker |-> [tracker EXCEPT
                            !.total_cost_usd = f.tmp + f.metrics.estimated_cost_usd],
             frame |-> [f EXCEPT !.pc = "load_count"]]
      [] f.pc = "load_count" ->
            [tracker |-> tracker,
             frame |-> [f EXCEPT !.pc = "store_count", !.tmp = tracker.request_count]]
      [] f.pc = "store_count" ->
            [tracker |-> [tracker EXCEPT !.request_count = f.tmp + 1],
             frame |-> [f EXCEPT !.pc = "append"]]
      [] f.pc = "append" ->
            [tracker |-> [tracker EXCEPT !.metrics_history = Append(@, f.metrics)],
             frame |-> [f EXCEPT !.pc = "test_len"]]
      [] f.pc = "test_len" ->
            [tracker |-> tracker,
             frame |-> [f EXCEPT !.pc = IF Len(tracker.metrics_history) > HistoryCap
                                         THEN "pop" ELSE "done"]]
      [] f.pc = "pop" ->
            [tracker |-> [tracker EXCEPT !.metrics_history = Tail(@)],
             frame |-> [f EXCEPT !.pc = "done"]]

\* the metrics the threads record
ThreadMetrics ==
    { UsageMetrics("deepseek/deepseek-chat", CHEAP_GENERAL, 12, 7, 40),
      UsageMetrics("openai/gpt-4o", FALLBACK, 4001, 250, 1200) }

\* the metrics recorded before the threads start: none, or one less than the
\* history keeps
EarlierRecorded ==
    { <<>>, [i \in 1..(HistoryCap - 1) |-> EarlierMetrics(i)] }

\* the tracker after record() was called, one call after another, on each of
\* fewer than HistoryCap metrics
TrackerOf(ms) ==
    [total_input_tokens |-> Sum([i \in 1..Len(ms) |-> ms[i].input_tokens]),
     total_output_tokens |-> Sum([i \in 1..Len(ms) |-> ms[i].output_tokens]),
     total_cost_usd |-> Sum([i \in 1..Len(ms) |-> ms[i].estimated_cost_usd]),
     request_count |-> Len(ms),
     metrics_history |-> ms]

\* a tracker shared by threads that have not called record() yet
InitThreads ==
    /\ RouterIdle
    /\ DispatchIdle
    /\ last = NoStep
    /\ recorded \in EarlierRecorded
    /\ usage_tracker = TrackerOf(recorded)
    /\ threads = <<>>
    /\ call = NoCall

\* thread t enters tracker.record(metrics)
RecordEnter(t, metrics) ==
    /\ t \notin DOMAIN threads
    /\ threads' = Put(threads, t, NewRecordFrame(metrics))
    /\ recorded' = Append(recorded, metrics)
    /\ UNCHANGED <<RouterVars, DispatchVars, last, usage_tracker, call>>

\* the interpreter runs the next step of thread t's record() call
RecordAdvance(t) ==
    /\ t \in DOMAIN threads
    /\ threads[t].pc # "done"
    /\ LET after == RecordStep(usage_tracker, threads[t])
       IN  /\ usage_tracker' = after.tracker
           /\ threads' = [threads EXCEPT ![t] = after.frame]
    /\ UNCHANGED <<RouterVars, DispatchVars, last, recorded, call>>

NextThreads ==
    \/ \E t \in Threads, metrics \in ThreadMetrics : RecordEnter(t, metrics)
    \/ \E t \in Threads : RecordAdvance(t)

\* record() called by up to MaxThreads threads at once
SpecThreads == InitThreads /\ [][NextThreads]_vars

-----------------------------------------------------------------------------
(* UsageTracker.get_summary() on one thread while record() runs on another. *)
(* Each read of an attribute of the tracker is one step; `call` holds the    *)
(* reader's position, its temporary and the entries of the dict built so far *)
(* (elapsed_seconds, which reads the clock only, is left out).              *)

Max2(a, b) == IF a >= b THEN a ELSE b

\* round(n / d) to the nearest integer, a tie going to the even one
RoundDiv(n, d) ==
    LET q == n \div d
        r == n % d
    IN  IF 2 * r < d THEN q
        ELSE IF 2 * r > d THEN q + 1
        ELSE IF q % 2 = 0 THEN q ELSE q + 1

\* a get_summary() call that has just been entered
NewSummaryFrame ==
    [op |-> "get_summary", pc |-> "total_input_tokens", tmp |-> 0, returned |-> FALSE,
     summary |-> <<>>]

\* one step of get_summary(): the frame after the read of the tracker
SummaryStep(tracker, f) ==
    CASE f.pc = "total_input_tokens" ->
            [f EXCEPT !.pc = "total_output_tokens",
                      !.summary = Put(@, "total_input_tokens", tracker.total_input_tokens)]
      [] f.pc = "total_output_tokens" ->
            [f EXCEPT !.pc = "total_tokens_input",
                      !.summary = Put(@, "total_output_tokens", tracker.total_output_tokens)]
      [] f.pc = "total_tokens_input" ->
            [f EXCEPT !.pc = "total_tokens_output", !.tmp = tracker.total_input_tokens]
      [] f.pc = "total_tokens_output" ->
            [f EXCEPT !.pc = "total_cost_usd",
                      !.summary = Put(@, "total_tokens", f.tmp + tracker.total_output_tokens)]
      [] f.pc = "total_cost_usd" ->
            [f EXCEPT !.pc = "request_count",
                      !.summary = Put(@, "total_cost_usd",
                                      100 * RoundDiv(tracker.total_cost_usd, 100))]
      [] f.pc = "request_count" ->
            [f EXCEPT !.pc = "avg_tokens_input",
                      !.summary = Put(@, "request_count", tracker.request_count)]
      [] f.pc = "avg_tokens_input" ->
            [f EXCEPT !.pc = "avg_tokens_output", !.tmp = tracker.total_input_tokens]
      [] f.pc = "avg_tokens_output" ->
            [f EXCEPT !.pc = "avg_tokens_count", !.tmp = f.tmp + tracker.total_output_tokens]
      [] f.pc = "avg_tokens_count" ->
            [f EXCEPT !.pc = "avg_cost_total",
                      !.summary = Put(@, "avg_tokens_per_request",
                                      f.tmp \div Max2(1, tracker.request_count))]
      [] f.pc = "avg_cost_total" ->
            [f EXCEPT !.pc = "avg_cost_count", !.tmp = tracker.total_cost_usd]
      [] f.pc = "avg_cost_count" ->
            [f EXCEPT !.pc = "done", !.returned = TRUE,
                      !.summary = Put(@, "avg_cost_per_request",
                                      RoundDiv(f.tmp, Max2(1, tracker.request_count)))]

\* the reader thread enters tracker.get_summary()
SummaryEnter ==
    /\ call = NoCall
    /\ call' = NewSummaryFrame
    /\ UNCHANGED <<RouterVars, DispatchVars, last, recorded, usage_tracker, threads>>

\* the interpreter runs the next step of the reader's get_summary() call
SummaryAdvance ==
    /\ call # NoCall
    /\ ~call.returned
    /\ call' = SummaryStep(usage_tracker, call)
    /\ UNCHANGED <<RouterVars, DispatchVars, last, recorded, usage_tracker, threads>>

\* thread 1 calls record() while the reader thread reads the summary
NextReader ==
    \/ \E metrics \in ThreadMetrics : RecordEnter(1, metrics)
    \/ RecordAdvance(1)
    \/ SummaryEnter
    \/ SummaryAdvance

\* get_summary() called while one other thread calls record()
SpecReader == InitThreads /\ [][NextReader]_vars

-----------------------------------------------------------------------------
(* The stateless components called directly: `call` holds the arguments of  *)
(* one call and, once it has returned, its result.                          *)

\* a call that has not returned yet
Calling(op, args) == [op |-> op, args |-> args, returned |-> FALSE, result |-> <<>>]

\* the variables a call of a stateless component leaves alone
CallFrame ==
    <<RouterVars, DispatchVars, usage_tracker, recorded, last, threads>>

\* nothing but a call of a stateless component is under way
CallOnly ==
    /\ RouterIdle
    /\ DispatchIdle
    /\ usage_tracker = NewTracker
    /\ recorded = <<>>
    /\ last = NoStep
    /\ threads = <<>>

\* the call returns the result
Return(result) ==
    /\ ~call.returned
    /\ call' = [call EXCEPT !.returned = TRUE, !.result = result]
    /\ UNCHANGED CallFrame

\* whether a call of the operation has returned
Returned_(op) == call.op = op /\ call.returned

-----------------------------------------------------------------------------
(* ResponseTruncator.truncate() called directly *)

\* a text of n characters: letters 'a' with the two characters of mark m1 at
\* position p and those of mark m2 at position q (1-based)
Marked(n, p, m1, q, m2) ==
    [i \in 1..n |->
        IF i = p THEN m1[1] ELSE IF i = p + 1 THEN m1[2]
        ELSE IF i = q THEN m2[1] ELSE IF i = q + 1 THEN m2[2]
        ELSE "a"]

\* the marks: end markers, a lone space, and no mark
FirstMarks == { <<".", " ">>, <<"!", " ">>, <<"?", "\n">>, <<"a", " ">> }
SecondMarks == { <<"a", "a">>, <<".", " ">>, <<"!", " ">>, <<"a", " ">> }

\* the texts handed to truncate(): up to MaxTextLen characters with up to two
\* marks, the second starting right after the first or one character later
TruncateTexts ==
    { Marked(n, p, m1, p + 2 + g, m2) :
        n \in 0..MaxTextLen, p \in 1..MaxTextLen, g \in 0..1,
        m1 \in FirstMarks, m2 \in SecondMarks }

TruncateArgs ==
    [text : TruncateTexts, max_tokens : 0..MaxTokens, strategy : {"hard", "smart"}]

InitTruncate ==
    /\ CallOnly
    /\ call \in { Calling("truncate", a) : a \in TruncateArgs }

\* ResponseTruncator().truncate(text, max_tokens, strategy)
TruncateCall ==
    /\ call.op = "truncate"
    /\ Return(Truncate(call.args.text, call.args.max_tokens, call.args.strategy))

SpecTruncate == InitTruncate /\ [][TruncateCall]_vars

-----------------------------------------------------------------------------
(* PromptOptimizer.optimize() called directly, and called again on its own   *)
(* output                                                                   *)

\* the words joined by single spaces, as a list of pieces
Spaced(ws) ==
    [i \in 1..(2 * Len(ws) - 1) |-> IF i % 2 = 1 THEN ws[(i + 1) \div 2] ELSE " "]

\* the words of the generated texts
OptimizeWords == {"could", "can", "you", "help", "just"}

\* texts with capitals, punctuation, whitespace runs and fillers
OptimizeSamples ==
    { <<"Could", " ", "you", " ", "Please", " ", "translate", " ", "this", " ",
        "to", " ", "sinhala">>,
      <<"i", " ", "want", " ", "you", " ", "in", " ", "order", " ", "to", " ",
        "help">>,
      <<"displease", " ", "you">>,
      <<"wait", ".", ".", ".", " ", " ", "help", " ", ",", "me">>,
      <<"do", " ", "it", " ", "just">>,
      <<" ", "\n", "help", "\n", "\n", "\n", "\n", "me", "\t">>,
      <<"really", " ", "very", " ", "justice">>,
      <<"due", " ", "to", " ", "the", " ", "fact", " ", "that", " ", "it", " ",
        "help", ".">> }

\* the texts handed to optimize()
OptimizeTexts ==
    { SpellAll(Spaced(ws), 1) :
        ws \in UNION { [1..n -> OptimizeWords] : n \in 0..MaxWords } }
    \cup { SpellAll(pieces, 1) : pieces \in OptimizeSamples }

InitOptimize ==
    /\ CallOnly
    /\ call \in { Calling("optimize", a) :
                    a \in [text : OptimizeTexts, aggressive : BOOLEAN] }

\* result = PromptOptimizer(aggressive).optimize(text)
OptimizeCall ==
    /\ call.op = "optimize"
    /\ Return(OptimizeText(call.args.text, call.args.aggressive))

\* again = PromptOptimizer(aggressive).optimize(result.text)
OptimizeAgain ==
    /\ Returned_("optimize")
    /\ call' = [op |-> "optimize_again", args |-> call.args, returned |-> TRUE,
                result |-> call.result,
                again |-> OptimizeText(call.result.text, call.args.aggressive)]
    /\ UNCHANGED CallFrame

NextOptimize == OptimizeCall \/ OptimizeAgain

SpecOptimize == InitOptimize /\ [][NextOptimize]_vars

\* texts with letters of a dense script
DenseSamples ==
    { <<"could", " ", "you", " ", SinhalaDelete>>,
      <<SinhalaDelete, " ", "can", " ", "you", " ", SinhalaDelete>>,
      <<SinhalaDelete, " ", SinhalaDelete>> }

InitSaved ==
    /\ CallOnly
    /\ call \in { Calling("optimize", a) :
                    a \in [text : OptimizeTexts \cup
                                    { SpellAll(pieces, 1) : pieces \in DenseSamples },
                           aggressive : BOOLEAN] }

\* optimize() called on texts with and without letters of a dense script
SpecSaved == InitSaved /\ [][OptimizeCall]_vars

-----------------------------------------------------------------------------
(* RoutingContext constructed directly *)

\* words of 1, 2 and 5 other characters and of 5 and 6 dense-script characters
EstimateWords == {"a", "to", "hello", SinhalaDelete, SinhalaSummary}

\* the input texts: up to MaxWords words with one space between two words
EstimateTexts == UNION { [1..n -> EstimateWords] : n \in 0..MaxWords }

InitEstimate ==
    /\ CallOnly
    /\ call \in { Calling("RoutingContext", [input_text |-> t]) : t \in EstimateTexts }

\* context = RoutingContext(intent="general", input_text=text)
ContextCall ==
    /\ call.op = "RoutingContext"
    /\ Return(RoutingContext("general", call.args.input_text, FALSE, FALSE, 0))

SpecEstimate == InitEstimate /\ [][ContextCall]_vars

-----------------------------------------------------------------------------
(* IntentDetector.detect() called directly *)

\* words that patterns of translate, summarize, powerpoint and search match,
\* alone or in pairs, and a word that no pattern matches
DetectWords == {"Translate", "summary", "slides", "find", "web", "to", "sinhala", "hello"}

\* the texts handed to detect(): up to MaxWords words, and a longer request
DetectTexts ==
    UNION { [1..n -> DetectWords] : n \in 0..MaxWords }
    \cup { <<"could", "you", "please", "translate", "this", "to", "sinhala">> }

InitDetect ==
    /\ CallOnly
    /\ call \in { Calling("detect", [text |-> t]) : t \in DetectTexts }

\* intent = IntentDetector().detect(text)
DetectCall ==
    /\ call.op = "detect"
    /\ Return(DetectIntent(call.args.text))

SpecDetect == InitDetect /\ [][DetectCall]_vars

-----------------------------------------------------------------------------
(* ConversationSummarizer.prepare_for_summary().  A string is a sequence of   *)
(* runs: a character repeated n >= 1 times, or a fixed piece of text once.   *)

\* c * n
Chars(c, n) == [s |-> c, n |-> n]

\* the characters a message's content is cut to
ContentLimit == 500

RECURSIVE PrefixFrom(_, _, _)
PrefixFrom(content, i, left) ==
    IF i > Len(content) \/ left = 0 THEN <<>>
    ELSE IF content[i].n <= left
         THEN <<content[i]>> \o PrefixFrom(content, i + 1, left - content[i].n)
         ELSE <<Chars(content[i].s, left)>>

\* content[:limit], for a content of runs of single characters
ContentPrefix(content, limit) == PrefixFrom(content, 1, limit)

\* role.upper()
UpperRole(role) ==
    CASE role = "user" -> "USER"
      [] role = "assistant" -> "ASSISTANT"
      [] role = "system" -> "SYSTEM"

\* f"{role}: {content[:500]}"
SummaryLine(m) ==
    <<Chars(UpperRole(m.role) \o ": ", 1)>> \o ContentPrefix(m.content, ContentLimit)

RECURSIVE JoinFrom(_, _)
JoinFrom(lines, i) ==
    IF i > Len(lines) THEN <<>>
    ELSE IF i = Len(lines) THEN lines[i]
    ELSE lines[i] \o <<Chars("\n", 1)>> \o JoinFrom(lines, i + 1)

\* "\n".join(lines)
JoinLines(lines) == JoinFrom(lines, 1)

\* list[:stop]: a negative stop counts from the end, and 0 is the empty list
SliceTo(list, stop) ==
    LET end == IF stop < 0 THEN Len(list) + stop ELSE stop
    IN  IF end <= 0 THEN <<>>
        ELSE IF end >= Len(list) THEN list
        ELSE SubSeq(list, 1, end)

NotSystem(m) == m.role # "system"
HasContent(m) == m.content # <<>>

\* ConversationSummarizer(retain_last).prepare_for_summary(messages)
PrepareForSummary(messages, retain_last) ==
    LET conversation_msgs == SelectSeq(messages, NotSystem)
        to_summarize == SliceTo(conversation_msgs, -retain_last)
        with_content == SelectSeq(to_summarize, HasContent)
        lines == [i \in 1..Len(with_content) |-> SummaryLine(with_content[i])]
    IN  IF Len(conversation_msgs) <= retain_last
        THEN [to_summarize |-> <<>>, conversation_text |-> <<>>]
        ELSE [to_summarize |-> to_summarize, conversation_text |-> JoinLines(lines)]

\* list[start:]: a negative start counts from the end, and 0 is the whole list
SliceFrom(list, start) ==
    LET begin == IF start < 0 THEN Len(list) + start ELSE start
    IN  IF begin <= 0 THEN list
        ELSE IF begin >= Len(list) THEN <<>>
        ELSE SubSeq(list, begin + 1, Len(list))

IsSystem(m) == m.role = "system"

\* f"[Previous conversation summary: {summary}]"
SummaryNote(summary) ==
    <<Chars("[Previous conversation summary: ", 1)>> \o summary \o <<Chars("]", 1)>>

\* ConversationSummarizer(retain_last).build_summarized_context(summary, messages)
BuildSummarizedContext(summary, messages, retain_last) ==
    LET system_msgs == SelectSeq(messages, IsSystem)
        conversation_msgs == SelectSeq(messages, NotSystem)
        retained == IF conversation_msgs # <<>>
                    THEN SliceFrom(conversation_msgs, -retain_last) ELSE <<>>
        note == IF summary # <<>>
                THEN <<[role |-> "user", content |-> SummaryNote(summary)]>> ELSE <<>>
    IN  system_msgs \o note \o retained

\* the contents of the messages: 'hi', 600 letters, two lines, nothing
ShortContent == <<Chars("h", 1), Chars("i", 1)>>
LongContent == <<Chars("a", ContentLimit + 100)>>
TwoLineContent == <<Chars("a", 1), Chars("\n", 1), Chars("b", 1)>>
SummaryMessages ==
    { [role |-> "user", content |-> c] :
        c \in {ShortContent, LongContent, TwoLineContent, <<>>} }
    \cup { [role |-> "assistant", content |-> ShortContent],
           [role |-> "system", content |-> ShortContent] }

\* a history of 12 messages of the user and the assistant in turn
TwelveMessages ==
    [i \in 1..12 |-> [role |-> IF i % 2 = 1 THEN "user" ELSE "assistant",
                       content |-> IF i % 2 = 1 THEN ShortContent ELSE LongContent]]

\* the histories handed to prepare_for_summary()
SummaryHistories ==
    UNION { [1..n -> SummaryMessages] : n \in 0..MaxMessages } \cup {TwelveMessages}

InitSummary ==
    /\ CallOnly
    /\ call \in { Calling("prepare_for_summary", a) :
                    a \in [messages : SummaryHistories, retain_last : 0..MaxRetain] }

\* ConversationSummarizer(retain_last).prepare_for_summary(messages)
PrepareCall ==
    /\ call.op = "prepare_for_summary"
    /\ Return(PrepareForSummary(call.args.messages, call.args.retain_last))

SpecSummary == InitSummary /\ [][PrepareCall]_vars

\* the summaries handed to build_summarized_context()
Summaries == {<<>>, ShortContent}

InitRebuild ==
    /\ CallOnly
    /\ call \in { Calling("build_summarized_context", a) :
                    a \in [summary : Summaries, messages : SummaryHistories,
                           retain_last : 0..MaxRetain] }

\* ConversationSummarizer(retain_last).build_summarized_context(summary, messages)
BuildCall ==
    /\ call.op = "build_summarized_context"
    /\ Return(BuildSummarizedContext(call.args.summary, call.args.messages,
                                     call.args.retain_last))

\* the same summarizer's prepare_for_summary(messages), on the same list
PrepareSame ==
    /\ Returned_("build_summarized_context")
    /\ call' = [op |-> "build_and_prepare", args |-> call.args, returned |-> TRUE,
                result |-> call.result,
                prepared |-> PrepareForSummary(call.args.messages,
                                               call.args.retain_last)]
    /\ UNCHANGED CallFrame

NextRebuild == BuildCall \/ PrepareSame

SpecRebuild == InitRebuild /\ [][NextRebuild]_vars

-----------------------------------------------------------------------------
(* chat() statement by statement: `call` holds the locals of the one call    *)
(* that is running, the statement group it executed last (pc) and the       *)
(* groups it executed so far (trace).                                       *)

\* chat() with the response truncated before the usage is recorded
StepAfter_TruncateFirst(pc) ==
    CASE pc = "route" -> "optimize"
      [] pc = "optimize" -> "send"
      [] pc = "resume" -> "truncate"
      [] pc = "truncate" -> "record"
      [] pc = "record" -> "return"
      [] OTHER -> "none"

\* chat(): the statement group that follows a group in the text of chat()
\* (after "send" the call waits for the transport; it resumes or raises)
StepAfter(pc) ==
    CASE pc = "route" -> "optimize"
      [] pc = "optimize" -> "send"
      [] pc = "resume" -> "record"
      [] pc = "record" -> "truncate"
      [] pc = "truncate" -> "return"
      [] OTHER -> "none"

\* the running call after it executed the statement group
Stepped(c, pc) == [c EXCEPT !.pc = pc, !.trace = Append(@, pc)]

\* no chat() call is running
NoChatRunning == call = NoCall \/ (call.op = "chat" /\ call.pc \in {"return", "raise"})

\* chat() lines 95-132: detect the intent, build the context, route, limit
StepRoute(r, k) ==
    LET request == [messages |-> r.messages, tools |-> r.tools, model |-> r.model,
                    max_tokens |-> r.max_tokens, session_key |-> k]
        frame == ChatFrame(calls + 1, request, retry_counts)
    IN  /\ NoChatRunning
        /\ calls < MaxSoloCalls
        /\ calls' = calls + 1
        /\ call' = [op |-> "chat", pc |-> "route", trace |-> <<"route">>,
                    frame |-> frame, tracker_before |-> usage_tracker,
                    optimized_messages |-> <<>>, response |-> <<>>,
                    metrics |-> <<>>, content |-> <<>>]
        /\ UNCHANGED <<retry_counts, usage_tracker, outcomes, recorded, last, frames,
                       threads, RouterVars>>

\* chat() lines 134-142: optimize the outbound messages, log the decision
StepOptimize ==
    /\ call.op = "chat" /\ StepAfter(call.pc) = "optimize"
    /\ call' = [Stepped(call, "optimize") EXCEPT
                    !.optimized_messages = OptimizeMessages(call.frame.request.messages)]
    /\ UNCHANGED <<calls, retry_counts, usage_tracker, outcomes, recorded, last,
                   frames, threads, RouterVars>>

\* chat() line 146: the transport is called and the call waits for it
StepSend ==
    /\ call.op = "chat" /\ StepAfter(call.pc) = "send"
    /\ call' = Stepped(call, "send")
    /\ last' = [op |-> "start", frame |-> call.frame, content |-> <<>>]
    /\ UNCHANGED <<calls, retry_counts, usage_tracker, outcomes, recorded, frames,
                   threads, RouterVars>>

\* chat() lines 146-155: the send returns and the retry count is reset
StepResume(response) ==
    /\ call.op = "chat" /\ call.pc = "send"
    /\ call' = [Stepped(call, "resume") EXCEPT !.response = response]
    /\ retry_counts' = Put(retry_counts, call.frame.session_key,
                           RetryAfterSuccess(call.frame.retry_count))
    /\ outcomes' = [outcomes EXCEPT ![call.frame.session_key] =
                        Append(@, [kind |-> "returned", read |-> call.frame.retry_count])]
    /\ UNCHANGED <<calls, usage_tracker, recorded, last, frames, threads, RouterVars>>

\* chat() lines 157-160: the send raises, the retry count is incremented and
\* the exception leaves chat()
StepRaise ==
    /\ call.op = "chat" /\ call.pc = "send"
    /\ call' = Stepped(call, "raise")
    /\ retry_counts' = Put(retry_counts, call.frame.session_key,
                           RetryAfterFailure(call.frame.retry_count))
    /\ outcomes' = [outcomes EXCEPT ![call.frame.session_key] =
                        Append(@, [kind |-> "raised", read |-> call.frame.retry_count])]
    /\ last' = [op |-> "raised", frame |-> call.frame, content |-> <<>>]
    /\ UNCHANGED <<calls, usage_tracker, recorded, frames, threads, RouterVars>>

\* chat() lines 162-174: build the metrics and record them
StepRecord ==
    LET metrics == ChatMetrics(call.frame, call.response)
    IN  /\ call.op = "chat" /\ StepAfter(call.pc) = "record"
        /\ call' = [Stepped(call, "record") EXCEPT !.metrics = metrics]
        /\ usage_tracker' = Record(usage_tracker, metrics)
        /\ recorded' = Append(recorded, metrics)
        /\ UNCHANGED <<calls, retry_counts, outcomes, last, frames, threads,
                       RouterVars>>

\* chat() lines 176-181: truncate the content if it is over the budget
StepTruncate ==
    /\ call.op = "chat" /\ StepAfter(call.pc) = "truncate"
    /\ call' = [Stepped(call, "truncate") EXCEPT
                    !.content = ChatContent(call.frame, call.response)]
    /\ UNCHANGED <<calls, retry_counts, usage_tracker, outcomes, recorded, last,
                   frames, threads, RouterVars>>

\* chat() line 183: return the response
StepReturn ==
    /\ call.op = "chat" /\ StepAfter(call.pc) = "return"
    /\ call' = Stepped(call, "return")
    /\ last' = [op |-> "returned", frame |-> call.frame, content |-> call.content]
    /\ UNCHANGED <<calls, retry_counts, usage_tracker, outcomes, recorded, frames,
                   threads, RouterVars>>

NextSteps ==
    \/ \E r \in Requests, k \in SessionArgs : StepRoute(r, k)
    \/ StepOptimize
    \/ StepSend
    \/ \E response \in Responses : StepResume(response)
    \/ StepRaise
    \/ StepRecord
    \/ StepTruncate
    \/ StepReturn

\* chat() called by one caller, one call at a time, statement by statement
SpecSteps == Init /\ [][NextSteps]_vars

-----------------------------------------------------------------------------
(* The log lines of one chat() call on a new provider.  A line is its level, *)
(* its fixed text and the values formatted into it, as strings.             *)

LogLine(level, text, values) == [level |-> level, text |-> text, values |-> values]

\* detect(): logger.debug(f"Intent detected: {intent}"), written on a match
DetectLines(intent) ==
    IF intent = "general" THEN <<>>
    ELSE <<LogLine("DEBUG", "Intent detected:", <<intent>>)>>

\* route(): logger.debug(f"Routing decision: {decision}")
RouteLine(routed) ==
    LogLine("DEBUG", "Routing decision:",
            <<routed.tier, routed.model, ToString(routed.max_output_tokens),
              routed.reason>>)

\* _optimize_messages(): the tokens saved on each message it replaces
SavedTokens(messages) ==
    LET saved == [i \in 1..Len(messages) |->
                    IF messages[i].role = "user" /\ TextLen(messages[i].content) > 100
                    THEN Optimize(messages[i].content).tokens_saved ELSE 0]
    IN  SelectSeq(saved, LAMBDA n : n > 5)

\* _optimize_messages(): logger.debug(f"Prompt optimized: saved ~{n} tokens")
OptimizeLines(messages) ==
    LET saved == SavedTokens(messages)
    IN  [i \in 1..Len(saved) |->
            LogLine("DEBUG", "Prompt optimized: saved tokens", <<ToString(saved[i])>>)]

\* chat(): the routing line with the last user message added to it
RoutingLine_WithPrompt(frame) ==
    LogLine("INFO", "Routing:",
            <<frame.context.intent, frame.decision.tier, frame.decision.model,
              ToString(frame.effective_max_tokens), frame.decision.reason>>
            \o frame.context.input_text)

\* chat(): logger.info(f"Routing: intent=.. tier=.. model=.. max_tokens=.. reason=..")
RoutingLine(frame) ==
    LogLine("INFO", "Routing:",
            <<frame.context.intent, frame.decision.tier, frame.decision.model,
              ToString(frame.effective_max_tokens), frame.decision.reason>>)

\* record(): logger.info(f"Usage: model=.. in=.. out=.. cost=$.. latency=..ms")
UsageLine(metrics) ==
    LogLine("INFO", "Usage:",
            <<metrics.model, ToString(metrics.input_tokens),
              ToString(metrics.output_tokens), ToString(metrics.estimated_cost_usd),
              ToString(metrics.latency_ms)>>)

\* the transport raising instead of returning a response
Raises == [raises |-> TRUE]

\* one chat(request) on a new provider whose transport answers with the
\* response or raises: the frame, the metrics recorded and the lines logged
ChatRun(r, response) ==
    LET request == [messages |-> r.messages, tools |-> r.tools, model |-> r.model,
                    max_tokens |-> r.max_tokens, session_key |-> None]
        frame == ChatFrame(1, request, <<>>)
        before_send == DetectLines(frame.context.intent) \o <<RouteLine(frame.routed)>>
                       \o OptimizeLines(request.messages) \o <<RoutingLine(frame)>>
    IN  IF response = Raises
        THEN [frame |-> frame, metrics |-> <<>>, log |-> before_send]
        ELSE [frame |-> frame, metrics |-> <<ChatMetrics(frame, response)>>,
              log |-> before_send \o <<UsageLine(ChatMetrics(frame, response))>>]

\* user texts: two of 11 characters, two of 16023 characters of which one
\* holds phrases that optimize() removes, two of 16005 characters of which
\* one asks for JSON, and one that is sensitive
LogTexts ==
    { <<"hello", "there">>, <<"howdy", "folks">>,
      <<"could", "you", "please", "would", "you", FillerAt>>,
      <<"hello", "all", "people", "hello", "all", FillerAt>>,
      <<"json", FillerOver>>, <<"know", FillerOver>>,
      <<"my", "Password">> }

LogRequests ==
    { [messages |-> <<UserMsg(t)>>, tools |-> <<>>, model |-> m, max_tokens |-> 4096] :
        t \in LogTexts, m \in {None, "openai/gpt-4o"} }

InitLogs ==
    /\ CallOnly
    /\ call \in { Calling("chat_twice", a) :
                    a \in [first : LogRequests, second : LogRequests,
                           response : Responses \cup {Raises}] }

\* the two requests are each dispatched by a new provider whose transport
\* gives the same answer
ChatTwice ==
    /\ call.op = "chat_twice"
    /\ Return([first |-> ChatRun(call.args.first, call.args.response),
               second |-> ChatRun(call.args.second, call.args.response)])

SpecLogs == InitLogs /\ [][ChatTwice]_vars

-----------------------------------------------------------------------------
(* _optimize_messages on objects.  The heap maps the id of an object to its  *)
(* value: a message dict, whose content is a str or a list of parts, or a   *)
(* list of ids of message dicts.                                            *)

Str(words) == [type |-> "str", value |-> words]
Parts(words) == [type |-> "list", value |-> words]

\* id of the object created next
NewId(heap) == Cardinality(DOMAIN heap) + 1

\* the body of the loop for one message dict: whether a copy is appended in
\* its place, and the copy {**msg, "content": result.text}
OptimizeDict(msg) ==
    IF msg.content.type = "str"
    THEN LET plain == [role |-> msg.role, content |-> msg.content.value]
             out == OptimizeMessage(plain)
         IN  [replaced |-> out # plain,
              msg |-> [msg EXCEPT !.content = Str(out.content)]]
    ELSE [replaced |-> FALSE, msg |-> msg]

RECURSIVE OptimizeLoop(_, _, _, _)
\* for msg in messages, from the i-th on: append the copy or msg itself
OptimizeLoop(heap, messages, optimized, i) ==
    IF i > Len(heap[messages]) THEN [heap |-> heap, optimized |-> optimized]
    ELSE LET ref == heap[messages][i]
             out == OptimizeDict(heap[ref])
             copy == NewId(heap)
         IN  IF out.replaced
             THEN OptimizeLoop(Put(Put(heap, copy, out.msg),
                                   optimized, Append(heap[optimized], copy)),
                               messages, optimized, i + 1)
             ELSE OptimizeLoop(Put(heap, optimized, Append(heap[optimized], ref)),
                               messages, optimized, i + 1)

\* _optimize_messages(messages): the heap after the call and the id of the
\* list returned
OptimizeMessagesOn(heap, messages) ==
    LET optimized == NewId(heap)
    IN  OptimizeLoop(Put(heap, optimized, <<>>), messages, optimized, 1)

\* runs of 73, 80 and 90 letters
Letters73 == "aaaaaaaaaaaaaaaaaaaaaaaaaaaaaaaaaaaaaaaaaaaaaaaaaaaaaaaaaaaaaaaaaaaaaaaaa"
Letters80 == "aaaaaaaaaaaaaaaaaaaaaaaaaaaaaaaaaaaaaaaaaaaaaaaaaaaaaaaaaaaaaaaaaaaaaaaaaaaaaaaa"
Letters90 == "aaaaaaaaaaaaaaaaaaaaaaaaaaaaaaaaaaaaaaaaaaaaaaaaaaaaaaaaaaaaaaaaaaaaaaaaaaaaaaaaaaaaaaaaaa"

\* 107 characters of which optimize() removes 27 (6 tokens)
LongSaving == <<"could", "you", "please", "would", "you", Letters80>>
\* 100 characters of which optimize() removes 27
HundredSaving == <<"could", "you", "please", "would", "you", Letters73>>
\* 110 characters of which optimize() removes 20 (5 tokens)
LongSavingFive == <<"could", "you", "would", "you", Letters90>>
\* 14 characters
ShortSaving == <<"could", "you", "help">>

MessageDicts ==
    { [role |-> r, content |-> c] :
        r \in {"user", "system", "assistant"},
        c \in {Str(LongSaving), Str(HundredSaving), Str(LongSavingFive),
               Str(ShortSaving), Parts(LongSaving)} }

\* two message dicts (objects 1 and 2) and the caller's list (object 3) of
\* up to MaxMessages references to them
Heaps ==
    { <<a, b, refs>> :
        a \in MessageDicts, b \in MessageDicts,
        refs \in UNION {[1..n -> {1, 2}] : n \in 0..MaxMessages} }

InitMessages ==
    /\ CallOnly
    /\ call \in { Calling("_optimize_messages", [heap |-> h, messages |-> Len(h)]) :
                    h \in Heaps }

OptimizeMessagesCall ==
    /\ call.op = "_optimize_messages"
    /\ Return(OptimizeMessagesOn(call.args.heap, call.args.messages))

SpecMessages == InitMessages /\ [][OptimizeMessagesCall]_vars

-----------------------------------------------------------------------------
(* _detect_provider of the onboarding command, on a key of characters *)

\* key.startswith(prefix)
StartsWith(key, prefix) ==
    Len(key) >= Len(prefix) /\ SubSeq(key, 1, Len(prefix)) = prefix

\* the key prefixes the rules test
PrefixAnthropic == <<"s", "k", "-", "a", "n", "t", "-">>
PrefixOpenRouter == <<"s", "k", "-", "o", "r", "-">>
PrefixGroq == <<"g", "s", "k", "_">>
PrefixGemini == <<"A", "I", "z", "a">>
PrefixOpenAiProject == <<"s", "k", "-", "p", "r", "o", "j", "-">>
PrefixSk == <<"s", "k", "-">>

\* the length above which a generic sk- key is taken for an OpenAI key
LongKeyOver == 60

\* _detect_provider with the generic sk- rules tried before the specific ones
DetectProvider_GenericFirst(api_key) ==
    LET key == Strip(api_key)
    IN  IF StartsWith(key, PrefixSk) /\ Len(key) > LongKeyOver THEN "openai"
        ELSE IF StartsWith(key, PrefixSk) THEN "deepseek"
        ELSE IF StartsWith(key, PrefixAnthropic) THEN "anthropic"
        ELSE IF StartsWith(key, PrefixOpenRouter) THEN "openrouter"
        ELSE IF StartsWith(key, PrefixGroq) THEN "groq"
        ELSE IF StartsWith(key, PrefixGemini) THEN "gemini"
        ELSE IF StartsWith(key, PrefixOpenAiProject) THEN "openai"
        ELSE "deepseek"

\* _detect_provider(api_key)
DetectProvider(api_key) ==
    LET key == Strip(api_key)
    IN  IF StartsWith(key, PrefixAnthropic) THEN "anthropic"
        ELSE IF StartsWith(key, PrefixOpenRouter) THEN "openrouter"
        ELSE IF StartsWith(key, PrefixGroq) THEN "groq"
        ELSE IF StartsWith(key, PrefixGemini) THEN "gemini"
        ELSE IF StartsWith(key, PrefixOpenAiProject) THEN "openai"
        ELSE IF StartsWith(key, PrefixSk) /\ Len(key) > LongKeyOver THEN "openai"
        ELSE IF StartsWith(key, PrefixSk) THEN "deepseek"
        ELSE "deepseek"

\* how the keys start: the prefixes, prefixes in the wrong case or cut short,
\* and keys with no prefix
KeyHeads ==
    { PrefixAnthropic, PrefixOpenRouter, PrefixGroq, PrefixGemini,
      PrefixOpenAiProject, PrefixSk,
      <<"S", "K", "-", "A", "N", "T", "-">>, <<"s", "k", "-", "a", "n", "t">>,
      <<"a", "i", "z", "a">>, <<"s", "k">>, <<>> }

\* the keys: blanks, a head, up to MaxKeyTail letters and blanks
ApiKeys ==
    { [i \in 1..before |-> " "] \o head \o [i \in 1..n |-> "a"]
        \o [i \in 1..after |-> IF i = 1 THEN "\n" ELSE " "] :
        before \in 0..1, head \in KeyHeads, n \in 0..MaxKeyTail, after \in {0, 2} }

InitProvider ==
    /\ CallOnly
    /\ call \in { Calling("_detect_provider", [api_key |-> k]) : k \in ApiKeys }

\* provider = _detect_provider(api_key)
DetectProviderCall ==
    /\ call.op = "_detect_provider"
    /\ Return(DetectProvider(call.args.api_key))

SpecProvider == InitProvider /\ [][DetectProviderCall]_vars

-----------------------------------------------------------------------------
(* Properties of ModelRouter.route(), under SpecRoute *)

\* route() has returned for rt_context
Routed == rt_decision.tier # "none"

\* the flags as route() uses them: the context's flag or the auto-detection
EffectiveSensitivity(context) ==
    context.sensitivity \/ DetectSensitivity(context.input_text)
EffectiveNeedsJson(context) ==
    context.needs_json \/ DetectJsonRequirement(context.input_text)

\* C1: a context with sensitivity = true is routed to SENSITIVE with reason
\* sensitive_content_detected, whatever its other fields are.
C1_SensitiveAlways ==
    (Routed /\ rt_context.sensitivity) =>
        /\ rt_decision.tier = SENSITIVE
        /\ rt_decision.reason = "sensitive_content_detected"

\* a sensitive context that also matches rules 2, 3 and 4 was routed
C1_Witness ==
    /\ Routed
    /\ rt_context.sensitivity
    /\ rt_context.retry_count > 1
    /\ rt_context.needs_json
    /\ rt_context.input_tokens > LargeInputTokens
    /\ rt_decision.tier = SENSITIVE

\* C2 as stated: a context whose sensitivity field is false and whose
\* retry_count > 1 is routed to FALLBACK with reason
\* retry_escalation_count_<retry_count>, for every input_text.
C2_AsStated ==
    (Routed /\ ~rt_context.sensitivity /\ rt_context.retry_count > 1) =>
        /\ rt_decision.tier = FALLBACK
        /\ rt_decision.reason = RetryReason(rt_context.retry_count)

\* C2 as amended: a context whose sensitivity field is false, whose input_text
\* matches no sensitivity pattern and whose retry_count > 1 is routed to
\* FALLBACK with reason retry_escalation_count_<retry_count>.
C2_RetryEscalates ==
    (Routed /\ ~EffectiveSensitivity(rt_context) /\ rt_context.retry_count > 1) =>
        /\ rt_decision.tier = FALLBACK
        /\ rt_decision.reason = RetryReason(rt_context.retry_count)

\* a context that is not sensitive, needs JSON and has retry_count = 2 was
\* routed to FALLBACK
C2_Witness ==
    /\ Routed
    /\ ~EffectiveSensitivity(rt_context)
    /\ rt_context.retry_count = 2
    /\ EffectiveNeedsJson(rt_context)
    /\ rt_decision.tier = FALLBACK
    /\ rt_decision.reason = "retry_escalation_count_2"

\* C3: route() returns the tier and the reason of the first matching rule in
\* the order sensitivity, retry_count > 1, needs_json, input_tokens > 4000,
\* default, the two flags being the context's flag or the auto-detection.
C3_RulePriority ==
    Routed =>
        LET c == rt_context
            sens == EffectiveSensitivity(c)
            json == EffectiveNeedsJson(c)
            got == <<rt_decision.tier, rt_decision.reason>>
        IN  /\ sens => got = <<SENSITIVE, "sensitive_content_detected">>
            /\ (~sens /\ c.retry_count > 1) =>
                  got = <<FALLBACK, RetryReason(c.retry_count)>>
            /\ (~sens /\ c.retry_count <= 1 /\ json) =>
                  got = <<STRUCTURED, "json_output_required">>
            /\ (~sens /\ c.retry_count <= 1 /\ ~json /\ c.input_tokens > 4000) =>
                  got = <<STRUCTURED, LargeReason(c.input_tokens)>>
            /\ (~sens /\ c.retry_count <= 1 /\ ~json /\ c.input_tokens <= 4000) =>
                  got = <<CHEAP_GENERAL, "default_cheap_routing">>

\* a context that needs JSON and has more than 4000 input tokens was routed
\* by the JSON rule
C3_Witness ==
    /\ Routed
    /\ ~EffectiveSensitivity(rt_context)
    /\ rt_context.retry_count <= 1
    /\ EffectiveNeedsJson(rt_context)
    /\ rt_context.input_tokens = 4002
    /\ rt_decision.reason = "json_output_required"

-----------------------------------------------------------------------------
(* Properties of KadiyaProvider.chat() *)

\* the call whose step was taken last
Started == last.op = "start"
Returned == last.op = "returned"
Raised == last.op = "raised"

\* whether route() finds the call's user message sensitive (chat() passes
\* sensitivity = False, so only the auto-detection counts)
SensitiveCall(frame) == DetectSensitivity(frame.context.input_text)

\* C4: with a model override, the max_tokens sent to the transport is never
\* higher than what the same request is sent without the override, which is
\* the routed intent/tier ceiling clamped to the configured maximum and to
\* the caller's max_tokens.
C4_OverrideNeverRaises ==
    (Started /\ last.frame.request.model # None) =>
        last.frame.sent[1].max_tokens <=
            EffectiveMaxTokens(last.frame.routed, last.frame.request.max_tokens)

RECURSIVE TrailingRaised(_)
\* the number of raised sends at the end of a session's outcomes
TrailingRaised(outs) ==
    IF outs = <<>> \/ outs[Len(outs)].kind # "raised" THEN 0
    ELSE 1 + TrailingRaised(SubSeq(outs, 1, Len(outs) - 1))

\* C5: a call of chat() calls the transport once; it writes the session's
\* retry count only when the outcome of the send is known: 0 after a send
\* that returned, the count read at the start of the call plus 1 after a
\* send that raised, which is raised to the caller.
C5_RetryWrittenOnOutcome ==
    [][ /\ \A id \in DOMAIN frames' \ DOMAIN frames :
              /\ retry_counts' = retry_counts
              /\ Len(frames'[id].sent) = 1
              /\ frames'[id].retry_count = Get(retry_counts, frames'[id].session_key, 0)
        /\ \A id \in DOMAIN frames \ DOMAIN frames' :
              /\ Len(frames[id].sent) = 1
              /\ last'.frame = frames[id]
              /\ outcomes'[frames[id].session_key] =
                    Append(outcomes[frames[id].session_key],
                           [kind |-> last'.op, read |-> frames[id].retry_count])
              /\ last'.op \in {"returned", "raised"}
              /\ last'.op = "returned" => retry_counts'[frames[id].session_key] = 0
              /\ last'.op = "raised" =>
                    retry_counts'[frames[id].session_key] = frames[id].retry_count + 1
        /\ (DOMAIN frames' = DOMAIN frames) => retry_counts' = retry_counts
      ]_vars

\* a send raised for a call that had read a retry count of 1 while another
\* call was in flight, and the count is 2 now
C5_Witness ==
    /\ Raised
    /\ last.frame.retry_count = 1
    /\ retry_counts[last.frame.session_key] = 2
    /\ frames # <<>>

\* the outcome of the session's call that became known last
LastOutcome(key) == outcomes[key][Len(outcomes[key])]

\* a call that starts when the last known outcome of its session is a raise
StartedAfterRaise ==
    /\ Started
    /\ outcomes[last.frame.session_key] # <<>>
    /\ LastOutcome(last.frame.session_key).kind = "raised"

\* C6 as stated: after a transport failure of a request of a session, the
\* next request of that session that is not sensitive is routed to FALLBACK
\* by rule 2.
C6_AsStated ==
    (StartedAfterRaise /\ ~SensitiveCall(last.frame)) =>
        /\ last.frame.routed.tier = FALLBACK
        /\ last.frame.routed.reason = RetryReason(last.frame.retry_count)

\* C6 as amended: after a transport failure of a request of a session, the
\* next request of that session that is not sensitive is routed to FALLBACK
\* by rule 2 exactly when the failed request had itself read a retry count
\* of at least 1, so that the failure left the count above 1; after a failure
\* that left the count at 1 it is not escalated.
C6_EscalatesAfterSecondFailure ==
    (StartedAfterRaise /\ ~SensitiveCall(last.frame)) =>
        LET read == LastOutcome(last.frame.session_key).read
        IN  /\ last.frame.retry_count = read + 1
            /\ (read >= 1) <=>
                  /\ last.frame.routed.tier = FALLBACK
                  /\ last.frame.routed.reason = RetryReason(read + 1)

\* a call that is not sensitive started after a raise that left the count
\* at 2 and was routed to FALLBACK
C6_Witness ==
    /\ StartedAfterRaise
    /\ ~SensitiveCall(last.frame)
    /\ LastOutcome(last.frame.session_key).read = 1
    /\ last.frame.routed.tier = FALLBACK

\* C7: with the requests of a session issued one after another, a request
\* that is not sensitive is routed by retry escalation (FALLBACK,
\* retry_escalation_count_<k>) exactly when the k >= 2 requests of the
\* session just before it all failed; after one failure it is not escalated
\* and after a success it is routed as with retry_count 0.
C7_EscalationCountsFailures ==
    Started =>
        LET k == TrailingRaised(outcomes[last.frame.session_key])
            c == last.frame.context
        IN  /\ c.retry_count = k
            /\ ~SensitiveCall(last.frame) =>
                  /\ (k >= 2) <=> (last.frame.routed.tier = FALLBACK)
                  /\ (k >= 2) <=> (last.frame.routed.reason = RetryReason(k))
                  /\ (k <= 1) =>
                        last.frame.routed =
                            Route(DEFAULT_TIERS,
                                  RoutingContext(c.intent, c.input_text, c.needs_json,
                                                 c.sensitivity, 0))

\* a call that is not sensitive started after two failed calls of its
\* session and was escalated
C7_Witness ==
    /\ Started
    /\ ~SensitiveCall(last.frame)
    /\ TrailingRaised(outcomes[last.frame.session_key]) = 2
    /\ last.frame.routed.reason = "retry_escalation_count_2"

\* C8: the retry-count updates of a session do not race: in every
\* interleaving of chat() calls, each failed request raises the session's
\* count by one over the value left by the requests whose outcome was known
\* before it, so that m failures with no success in between leave the count
\* at m.
C8_NoLostUpdate ==
    \A key \in SessionKeys :
        Get(retry_counts, key, 0) = TrailingRaised(outcomes[key])

-----------------------------------------------------------------------------
(* Properties of UsageTracker.record(), under SpecTracker *)

\* the input and the output tokens of a list of metrics
InputOf(ms) == Sum([i \in 1..Len(ms) |-> ms[i].input_tokens])
OutputOf(ms) == Sum([i \in 1..Len(ms) |-> ms[i].output_tokens])

\* C9: after N calls of record(), request_count = N and the history holds
\* the most recent min(N, 100) metrics in the order they were recorded; its
\* length never exceeds 100.
C9_HistoryIsLastHundred ==
    LET n == Len(recorded)
        kept == IF n < 100 THEN n ELSE 100
        history == usage_tracker.metrics_history
    IN  /\ usage_tracker.request_count = n
        /\ Len(history) = kept
        /\ Len(history) <= 100
        /\ \A i \in 1..kept : history[i] = recorded[n - kept + i]

\* more than 100 metrics were recorded and the oldest two are evicted
C9_Witness ==
    /\ Len(recorded) = 102
    /\ usage_tracker.request_count = 102
    /\ Len(usage_tracker.metrics_history) = 100
    /\ usage_tracker.metrics_history[1] = recorded[3]
    /\ usage_tracker.metrics_history[1] # recorded[1]

\* C10: total_input_tokens and total_output_tokens are the sums of the input
\* and output tokens of all metrics ever recorded, those evicted from the
\* history included.
C10_TotalsCoverEvicted ==
    /\ usage_tracker.total_input_tokens = InputOf(recorded)
    /\ usage_tracker.total_output_tokens = OutputOf(recorded)

\* metrics were evicted and the totals exceed the sums over the history
C10_Witness ==
    /\ Len(recorded) > HistoryCap
    /\ usage_tracker.total_input_tokens >
          InputOf(usage_tracker.metrics_history)
    /\ usage_tracker.total_output_tokens >
          OutputOf(usage_tracker.metrics_history)

-----------------------------------------------------------------------------
(* Properties of UsageTracker.record() called from threads, under SpecThreads *)

\* every record() call that was entered has returned
AllRecorded == \A t \in DOMAIN threads : threads[t].pc = "done"

\* C11: record() is safe under concurrent calls: once all N calls have
\* finished, request_count is N, the token totals are the sums over the N
\* metrics and the history holds min(N, 100) entries.
C11_RecordThreadSafe ==
    AllRecorded =>
        /\ usage_tracker.request_count = Len(recorded)
        /\ usage_tracker.total_input_tokens = InputOf(recorded)
        /\ usage_tracker.total_output_tokens = OutputOf(recorded)
        /\ Len(usage_tracker.metrics_history) = Min2(Len(recorded), HistoryCap)

-----------------------------------------------------------------------------
(* Properties of the decision's limit and model *)

\* C12: the decision's max_output_tokens is the intent's entry of the
\* intent->limit table when the intent is in the table, whatever the tier,
\* and the chosen tier's configured default otherwise; intent summarize with
\* ordinary text and retry_count 0 gives CHEAP_GENERAL, default_cheap_routing
\* and 256.
C12_OutputCeiling ==
    Routed =>
        LET intent == rt_context.intent
            limit == rt_decision.max_output_tokens
        IN  /\ intent = "summarize" => limit = 256
            /\ intent = "general" => limit = 1024
            /\ intent \in DOMAIN INTENT_TOKEN_LIMITS => limit = INTENT_TOKEN_LIMITS[intent]
            /\ intent \notin DOMAIN INTENT_TOKEN_LIMITS =>
                  limit = rt_tiers[rt_decision.tier].max_output_tokens
            /\ ( /\ intent = "summarize"
                 /\ rt_context.input_text = <<"hello", "there">>
                 /\ rt_context.retry_count = 0
                 /\ ~rt_context.needs_json
                 /\ ~rt_context.sensitivity )
               => /\ rt_decision.tier = CHEAP_GENERAL
                  /\ rt_decision.reason = "default_cheap_routing"
                  /\ limit = 256

\* a summarize context was routed to a tier whose default limit is not 256,
\* and a context with an intent outside the table was routed to FALLBACK of
\* a table that sets 3000 there
C12_Witness ==
    /\ Routed
    /\ \/ /\ rt_context.intent = "summarize"
          /\ rt_decision.tier = FALLBACK
          /\ rt_tiers[FALLBACK].max_output_tokens = 3000
          /\ rt_decision.max_output_tokens = 256
       \/ /\ rt_context.intent = "excel"
          /\ rt_decision.tier = FALLBACK
          /\ rt_decision.max_output_tokens = 3000

\* C13: route() never raises for lack of configuration, whatever tier table
\* the router was given: the decision's model is the first entry of the chosen
\* tier's model list when the tier has candidates and the hardcoded default
\* deepseek/deepseek-chat when it has none.
C13_NeverRaises ==
    Routed =>
        /\ rt_decision # KeyError
        /\ rt_decision.tier \in DOMAIN rt_tiers
        /\ LET models == rt_tiers[rt_decision.tier].models
           IN  rt_decision.model =
                  IF models # <<>> THEN models[1] ELSE "deepseek/deepseek-chat"

-----------------------------------------------------------------------------
(* Properties of ResponseTruncator.truncate(), under SpecTruncate *)

\* the character budget of the call
Budget == 4 * call.args.max_tokens

\* C14: truncate returns the text unchanged whenever len(text) <= 4*max_tokens,
\* with either strategy; otherwise strategy hard returns exactly the first
\* 4*max_tokens characters followed by '...'; the output is at most
\* 4*max_tokens + 3 characters long for every text and max_tokens >= 0.
C14_HardCut ==
    Returned_("truncate") =>
        LET text == call.args.text
        IN  /\ Len(text) <= Budget => call.result = text
            /\ (Len(text) > Budget /\ call.args.strategy = "hard") =>
                  /\ Len(call.result) = Budget + 3
                  /\ \A i \in 1..Budget : call.result[i] = text[i]
                  /\ \A i \in 1..3 : call.result[Budget + i] = "."
            /\ Len(call.result) <= Budget + 3

\* a text of 11 characters was cut hard at a budget of 8 characters
C14_Witness ==
    /\ Returned_("truncate")
    /\ call.args.strategy = "hard"
    /\ call.args.max_tokens = 2
    /\ Len(call.args.text) = 11
    /\ call.result = Prefix(call.args.text, 8) \o Ellipsis

\* the 0-based index of the last end marker of any kind in the text, -1 when
\* there is none
LastMarker(truncated) ==
    LET hits == {i \in 1..(Len(truncated) - 1) :
                    /\ truncated[i] \in {".", "!", "?"}
                    /\ truncated[i + 1] \in {" ", "\n"}}
    IN  IF hits = {} THEN -1 ELSE (CHOOSE i \in hits : \A j \in hits : j <= i) - 1

\* C15: with strategy smart and a text longer than the budget B, truncate cuts
\* at the end marker nearest to the budget, provided it lies at or after 50%
\* of B, and returns the text up to and including the punctuation; otherwise
\* it cuts at the last space within the budget if that lies at or after 70%
\* of B and appends '...'; otherwise it cuts at B and appends '...'.
C15_SmartCut ==
    (Returned_("truncate") /\ call.args.strategy = "smart"
                           /\ Len(call.args.text) > Budget) =>
        LET truncated == Prefix(call.args.text, Budget)
            last_end == LastMarker(truncated)
            last_space == RFind1(truncated, " ")
        IN  call.result =
                IF last_end >= 0 /\ 2 * last_end >= Budget
                THEN Prefix(truncated, last_end + 1)
                ELSE IF last_space >= 0 /\ 10 * last_space >= 7 * Budget
                THEN Prefix(truncated, last_space) \o Ellipsis
                ELSE truncated \o Ellipsis

-----------------------------------------------------------------------------
(* Properties of PromptOptimizer.optimize(), under SpecOptimize *)

\* whether the character is no whitespace
NoSpace(c) == ~IsSpace(c)

\* the text without its whitespace
WithoutSpaces(text) == SelectSeq(text, NoSpace)

\* C16: optimize is idempotent up to whitespace, in both modes: the text of
\* optimize(optimize(t).text) differs from the text of optimize(t) by no more
\* than whitespace.
C16_Idempotent ==
    call.op = "optimize_again" =>
        WithoutSpaces(call.again.text) = WithoutSpaces(call.result.text)

\* C17: tokens_saved is max(0, floor((original_length - optimized_length) / 4))
\* with original_length = len(text) and optimized_length = len(result text):
\* never negative, and 0 when the text got shorter by less than 4 characters.
C17_TokensSaved ==
    Returned_("optimize") =>
        LET r == call.result
            shorter == Len(call.args.text) - Len(r.text)
        IN  /\ r.original_length = Len(call.args.text)
            /\ r.optimized_length = Len(r.text)
            /\ r.tokens_saved >= 0
            /\ shorter < 4 => r.tokens_saved = 0
            /\ shorter >= 0 =>
                  /\ 4 * r.tokens_saved <= shorter
                  /\ shorter < 4 * (r.tokens_saved + 1)

\* "could you can help" lost its 10 leading characters: 10 // 4 = 2 tokens saved
C17_Witness ==
    /\ Returned_("optimize")
    /\ call.args.text = SpellAll(Spaced(<<"could", "you", "can", "help">>), 1)
    /\ call.result.text = SpellAll(Spaced(<<"can", "help">>), 1)
    /\ call.result.original_length = 18
    /\ call.result.optimized_length = 8
    /\ call.result.tokens_saved = 2

\* the words of a text that are written in a dense script
DenseWords(text) == { i \in 1..Len(text) : text[i] \in {SinhalaDelete, SinhalaSummary} }

\* C18: the token estimate of a text with d dense-script characters and o other
\* characters is 0 for the empty text and floor(d/2 + o/4) + 1 otherwise, so
\* at least 1 for a non-empty text; input_tokens of a constructed
\* RoutingContext is that estimate of its input_text.
C18_TokenEstimate ==
    Returned_("RoutingContext") =>
        LET text == call.result.input_text
            n == call.result.input_tokens
            d == Sum([i \in 1..Len(text) |-> IF i \in DenseWords(text)
                                              THEN WordChars(text[i]) ELSE 0])
            o == Sum([i \in 1..Len(text) |-> IF i \in DenseWords(text)
                                              THEN 0 ELSE WordChars(text[i])])
                 + (IF text = <<>> THEN 0 ELSE Len(text) - 1)
        IN  /\ text = call.args.input_text
            /\ n >= 0
            /\ text = <<>> => n = 0
            /\ text # <<>> =>
                  /\ n >= 1
                  /\ 4 * (n - 1) <= 2 * d + o
                  /\ 2 * d + o < 4 * n

\* 5 dense characters, a space and the 1 other character of "a":
\* int(5/2 + 2/4) + 1 = 4
C18_Witness ==
    /\ Returned_("RoutingContext")
    /\ call.args.input_text = <<SinhalaDelete, "a">>
    /\ call.result.input_tokens = 4

\* the positions in the declared order of the intents that match the text
MatchingIntents(text) ==
    { k \in 1..Len(IntentOrder) : IntentMatches(IntentOrder[k], text) }

\* C19: detect returns one tag: the first intent in the declared order
\* translate, summarize, format_whatsapp, format_telegram, pii_redact, excel,
\* word, powerpoint, search that has a matching pattern, whichever intents
\* match after it, and general when no intent matches; "could you please
\* translate this to sinhala" gives translate.
C19_FirstMatchWins ==
    Returned_("detect") =>
        LET matching == MatchingIntents(call.args.text)
        IN  /\ IntentOrder = <<"translate", "summarize", "format_whatsapp",
                               "format_telegram", "pii_redact", "excel", "word",
                               "powerpoint", "search">>
            /\ matching = {} => call.result = "general"
            /\ matching # {} =>
                  \E k \in matching :
                      /\ call.result = IntentOrder[k]
                      /\ \A j \in matching : k <= j
            /\ call.args.text = <<"could", "you", "please", "translate", "this",
                                  "to", "sinhala">> => call.result = "translate"

\* "slides summary Translate" matches powerpoint, summarize and translate, and
\* translate, declared first and found last in the text, is returned
C19_Witness ==
    /\ Returned_("detect")
    /\ call.args.text = <<"slides", "summary", "Translate">>
    /\ Cardinality(MatchingIntents(call.args.text)) = 3
    /\ call.result = "translate"

RECURSIVE SplitFrom(_, _, _)
SplitFrom(text, i, line) ==
    IF i > Len(text) THEN <<line>>
    ELSE IF text[i].s = "\n" THEN <<line>> \o SplitFrom(text, i + 1, <<>>)
    ELSE SplitFrom(text, i + 1, Append(line, text[i]))

\* the lines of a transcript (none for the empty transcript)
TranscriptLines(text) == IF text = <<>> THEN <<>> ELSE SplitFrom(text, 1, <<>>)

\* C20: for every message list and every retain_last >= 0, to_summarize is the
\* non-system messages except the last retain_last, in order (empty when there
\* are at most retain_last of them), and the transcript has exactly one line
\* per summarized message: its upper-cased role and at most 500 characters of
\* its content; 12 messages with retain_last = 2 give 10 messages, 10 lines.
C20_PrepareForSummary ==
    Returned_("prepare_for_summary") =>
        LET conv == SelectSeq(call.args.messages, NotSystem)
            keep == call.args.retain_last
            older == IF Len(conv) <= keep THEN <<>>
                     ELSE SubSeq(conv, 1, Len(conv) - keep)
            lines == TranscriptLines(call.result.conversation_text)
        IN  /\ call.result.to_summarize = older
            /\ Len(lines) = Len(older)
            /\ \A i \in 1..Len(older) :
                  /\ i <= Len(lines)
                  /\ lines[i] = <<Chars(UpperRole(older[i].role) \o ": ", 1)>>
                                 \o ContentPrefix(older[i].content, ContentLimit)
            /\ (call.args.messages = TwelveMessages /\ keep = 2) =>
                  Len(call.result.to_summarize) = 10 /\ Len(lines) = 10

\* the last n elements of a list (all of them when it has no more than n)
LastN(list, n) ==
    IF n = 0 THEN <<>>
    ELSE IF Len(list) <= n THEN list
    ELSE SubSeq(list, Len(list) - n + 1, Len(list))

\* C21: build_summarized_context returns the system messages in order, then
\* one user message wrapping the summary in the bracketed marker, then the last
\* retain_last non-system messages in order; the non-system messages before
\* those are exactly the to_summarize of prepare_for_summary on the same list.
C21_BuildSummarizedContext ==
    call.op = "build_and_prepare" =>
        LET system_msgs == SelectSeq(call.args.messages, IsSystem)
            conv == SelectSeq(call.args.messages, NotSystem)
            tail == LastN(conv, call.args.retain_last)
            note == [role |-> "user", content |-> SummaryNote(call.args.summary)]
        IN  /\ call.result = system_msgs \o <<note>> \o tail
            /\ call.prepared.to_summarize \o tail = conv

\* a chat() call with an empty message list and no tools has just reached
\* the transport
EmptyDispatched ==
    /\ last.op = "start"
    /\ last.frame.request.messages = <<>>
    /\ last.frame.request.tools = <<>>

\* the empty text is detected as general, estimated at 0 tokens and, without
\* flags and retries, routed to CHEAP_GENERAL by default_cheap_routing; an
\* unknown intent gets the ceiling of the tier it is routed to
DegenerateDefaults ==
    /\ DetectIntent(<<>>) = "general"
    /\ EstimateTokens(<<>>) = 0
    /\ LET d == Route(DEFAULT_TIERS, RoutingContext("general", <<>>, FALSE, FALSE, 0))
       IN  d.tier = CHEAP_GENERAL /\ d.reason = "default_cheap_routing"
    /\ \A c \in RouteContexts :
          c.intent = "no_such_intent" =>
              LET d == Route(DEFAULT_TIERS, c)
              IN  d.max_output_tokens = DEFAULT_TIERS[d.tier].max_output_tokens

\* the call was handed to the transport with the default routing
DefaultRouted(frame) ==
    /\ frame.context.intent = "general"
    /\ frame.context.input_tokens = 0
    /\ frame.routed.tier = CHEAP_GENERAL
    /\ frame.routed.reason = "default_cheap_routing"
    /\ frame.decision.tier = CHEAP_GENERAL
    /\ Len(frame.sent) = 1

\* C22: degenerate input maps to the defaults: the empty text gives general,
\* 0 tokens and CHEAP_GENERAL by default_cheap_routing, an unknown intent
\* the tier's default ceiling, and every dispatch with an empty message list
\* and no tools reaches the transport with that default routing.
C22_DegenerateInput ==
    EmptyDispatched => DegenerateDefaults /\ DefaultRouted(last.frame)

\* C22, amended: the dispatch with an empty message list and no tools reaches
\* the transport with the default routing when the session has failed at most
\* once in a row (after more failures it is routed to FALLBACK by retry
\* escalation); in every case it reaches the transport with intent general
\* and 0 input tokens.
C22_DegenerateInputFresh ==
    EmptyDispatched =>
        /\ DegenerateDefaults
        /\ last.frame.context.intent = "general"
        /\ last.frame.context.input_tokens = 0
        /\ Len(last.frame.sent) = 1
        /\ last.frame.retry_count <= 1 => DefaultRouted(last.frame)
        /\ last.frame.retry_count > 1 =>
              /\ last.frame.routed.tier = FALLBACK
              /\ last.frame.routed.reason = RetryReason(last.frame.retry_count)
        /\ (last.frame.request.model = None /\ last.frame.retry_count <= 1) =>
              /\ last.frame.sent[1].model = DEFAULT_TIERS[CHEAP_GENERAL].models[1]
              /\ last.frame.sent[1].max_tokens = INTENT_TOKEN_LIMITS["general"]

\* an empty request dispatched after one failure of its session
C22_Witness ==
    /\ EmptyDispatched
    /\ last.frame.request.model = None
    /\ last.frame.retry_count = 1
    /\ DefaultRouted(last.frame)

\* the key without the blanks around it
Bare(api_key) == SelectSeq(api_key, LAMBDA c : ~IsSpace(c))

\* C23: _detect_provider classifies the stripped key by the first rule that
\* matches, in the order sk-ant- anthropic, sk-or- openrouter, gsk_ groq,
\* AIza gemini, sk-proj- openai, sk- and longer than 60 openai, other sk-
\* deepseek, anything else deepseek: the result is one of six names and the
\* specific sk- prefixes win over the generic sk- rules.
C23_DetectProvider ==
    Returned_("_detect_provider") =>
        LET key == Bare(call.args.api_key)
            rules == << <<StartsWith(key, PrefixAnthropic), "anthropic">>,
                        <<StartsWith(key, PrefixOpenRouter), "openrouter">>,
                        <<StartsWith(key, PrefixGroq), "groq">>,
                        <<StartsWith(key, PrefixGemini), "gemini">>,
                        <<StartsWith(key, PrefixOpenAiProject), "openai">>,
                        <<StartsWith(key, PrefixSk) /\ Len(key) > 60, "openai">>,
                        <<StartsWith(key, PrefixSk), "deepseek">>,
                        <<TRUE, "deepseek">> >>
            first == CHOOSE k \in 1..Len(rules) :
                        rules[k][1] /\ \A j \in 1..(k - 1) : ~rules[j][1]
        IN  /\ call.result = rules[first][2]
            /\ call.result \in {"anthropic", "openrouter", "groq", "gemini",
                                 "openai", "deepseek"}

\* a key of blanks, sk-ant- and 60 letters, 67 characters long without the
\* blanks: the specific prefix wins over the rule for long sk- keys
C23_Witness ==
    /\ Returned_("_detect_provider")
    /\ StartsWith(call.args.api_key, <<" ">> \o PrefixAnthropic)
    /\ Len(Bare(call.args.api_key)) = 67
    /\ call.result = "anthropic"

\* whether s is a prefix of t
IsPrefixOf(s, t) == Len(s) <= Len(t) /\ SubSeq(t, 1, Len(s)) = s

\* the statement groups of the running call without the resumption
StepsTaken == SelectSeq(call.trace, LAMBDA s : s # "resume")

\* the sends that have returned, over all sessions
SendsReturned ==
    Cardinality(UNION { { <<k, i>> : i \in { j \in DOMAIN outcomes[k] :
                                               outcomes[k][j].kind = "returned" } } :
                        k \in SessionKeys })

\* C24: a dispatch runs route, optimize, send, record, truncate, return in
\* this order; a request whose send succeeded is recorded exactly once, after
\* the send returned and before the truncation, and a request whose send
\* failed is not recorded and leaves the tracker as it was.
C24_StepOrder ==
    call.op = "chat" =>
        /\ \/ IsPrefixOf(StepsTaken,
                          <<"route", "optimize", "send", "record", "truncate", "return">>)
           \/ StepsTaken = <<"route", "optimize", "send", "raise">>
        /\ call.pc \in {"route", "optimize", "send", "resume", "raise"} =>
              /\ usage_tracker = call.tracker_before
              /\ call.content = <<>>
        /\ call.pc \in {"record", "truncate", "return"} =>
              /\ usage_tracker =
                    Record(call.tracker_before, ChatMetrics(call.frame, call.response))
              /\ usage_tracker.request_count = call.tracker_before.request_count + 1
              /\ recorded[Len(recorded)] = call.metrics
        /\ call.pc = "record" => call.content = <<>>
        /\ Len(recorded) = SendsReturned - (IF call.pc = "resume" THEN 1 ELSE 0)
        /\ usage_tracker.request_count = Len(recorded)

\* the second call of a caller has recorded its usage and cut its response;
\* its first call had failed and is not in the tracker
C24_Witness ==
    /\ call.op = "chat"
    /\ call.pc = "truncate"
    /\ call.frame.id = 2
    /\ call.content # call.response.content
    /\ usage_tracker.request_count = 1
    /\ \E k \in SessionKeys : Len(outcomes[k]) > 0 /\ outcomes[k][1].kind = "raised"

\* C25: a summary returned by get_summary() is never torn, also when record()
\* runs at the same time: its total_tokens is its total_input_tokens plus its
\* total_output_tokens, and its totals and request_count are those of one and
\* the same number of completed record() calls.
C25_SummaryNotTorn ==
    (call # NoCall /\ call.returned) =>
        LET s == call.summary
        IN  /\ s["total_tokens"] = s["total_input_tokens"] + s["total_output_tokens"]
            /\ \E n \in 0..Len(recorded) :
                  /\ s["request_count"] = n
                  /\ s["total_input_tokens"] = InputOf(SubSeq(recorded, 1, n))
                  /\ s["total_output_tokens"] = OutputOf(SubSeq(recorded, 1, n))

\* C26: the one script-aware token estimator is used wherever tokens are
\* counted: tokens_saved of optimize() is the estimate of the original text
\* minus the estimate of the optimized text, floored at 0, also for a text
\* with dense-script characters.
C26_SameEstimator ==
    Returned_("optimize") =>
        call.result.tokens_saved =
            Max2(0, EstimateText(call.args.text) - EstimateText(call.result.text))

\* the aggregates of a dispatch that the claim names: detected intent, tier,
\* model, effective max tokens, reason, token counts, cost and latency
LoggedAggregates(run) ==
    <<run.frame.context.intent, run.frame.decision.tier, run.frame.decision.model,
      run.frame.effective_max_tokens, run.frame.decision.reason,
      run.frame.context.input_tokens, run.metrics>>

\* the user texts of the two requests differ
TextsDiffer == call.args.first.messages # call.args.second.messages

\* C27: the log lines of dispatch and of record() do not depend on the prompt
\* text beyond derived aggregates: two requests with different message texts
\* and the same intent, tier, model, effective max tokens, reason, token
\* counts, cost and latency produce identical log lines.
C27_LogNoninterference ==
    ( /\ Returned_("chat_twice")
      /\ LoggedAggregates(call.result.first) = LoggedAggregates(call.result.second) )
    => call.result.first.log = call.result.second.log

\* C27, amended: two requests with different message texts produce identical
\* log lines when they agree on these aggregates and also on the router's own
\* decision (which is logged by route() even under a model override) and on
\* the tokens saved on each message that prompt optimization replaced.
C27_LogDependsOnAggregates ==
    ( /\ Returned_("chat_twice")
      /\ LoggedAggregates(call.result.first) = LoggedAggregates(call.result.second)
      /\ call.result.first.frame.routed = call.result.second.frame.routed
      /\ SavedTokens(call.args.first.messages) = SavedTokens(call.args.second.messages) )
    => call.result.first.log = call.result.second.log

\* 'hello there' and 'howdy folks', both answered: the same three lines
C27_Witness ==
    /\ Returned_("chat_twice")
    /\ call.args.first.messages = <<UserMsg(<<"hello", "there">>)>>
    /\ call.args.second.messages = <<UserMsg(<<"howdy", "folks">>)>>
    /\ call.args.first.model = call.args.second.model
    /\ TextsDiffer
    /\ call.result.first.log = call.result.second.log
    /\ Len(call.result.first.log) = 3


\* the session key a call is made for: the one it passes, 'default' if none
CallerKey(frame) ==
    IF frame.request.session_key = None THEN "default" ELSE frame.request.session_key

\* the stored retry count of the key is the same before and after the step
RetryCountKept(key) ==
    /\ (key \in DOMAIN retry_counts') <=> (key \in DOMAIN retry_counts)
    /\ key \in DOMAIN retry_counts => retry_counts'[key] = retry_counts[key]

\* the number of sends of the session that raised so far
RaisedIn(key) ==
    Cardinality({i \in 1..Len(outcomes[key]) : outcomes[key][i].kind = "raised"})

\* C28: retry state is isolated per session key: every step of a dispatch
\* made for session key s (its start, its return, its raise) leaves the
\* retry count of every other key unchanged; a call is routed by retry
\* escalation only after two sends of its own session raised; and a call
\* that passes no session key is made for the key 'default'.
C28_RetryIsolation ==
    [][ /\ \A key \in (DOMAIN retry_counts \cup DOMAIN retry_counts') \cup SessionKeys :
            key # CallerKey(last'.frame) => RetryCountKept(key)
        /\ last'.frame.session_key = CallerKey(last'.frame)
        /\ ( last'.op = "start" /\ last'.frame.routed.tier = FALLBACK )
              => RaisedIn(CallerKey(last'.frame)) >= 2
      ]_vars

\* after two failed sends of session 'alice', a call without a session key
\* starts with retry count 0 and the default routing
C28_Witness ==
    /\ Get(retry_counts, "alice", 0) = 2
    /\ last.op = "start"
    /\ last.frame.request.session_key = None
    /\ last.frame.session_key = "default"
    /\ last.frame.retry_count = 0
    /\ last.frame.routed.reason = "default_cheap_routing"


\* the max_tokens value the call passed to the transport
SentMaxTokens(frame) == frame.sent[1].max_tokens

\* C29: for every request, with or without model override, the max_tokens
\* value that dispatch passes to the transport is at most the caller's
\* max_tokens, at most the configured token_limits.max_output_tokens and at
\* most the routing decision's max_output_tokens; and the content of the
\* response returned to the caller has length at most 4 * that value + 3.
C29_TokenBudget ==
    /\ last.op \in {"start", "returned", "raised"} =>
          /\ SentMaxTokens(last.frame) <= last.frame.request.max_tokens
          /\ SentMaxTokens(last.frame) <= ConfigMaxOutputTokens
          /\ SentMaxTokens(last.frame) <= last.frame.decision.max_output_tokens
    /\ last.op = "returned" =>
          Len(last.content) <= 4 * SentMaxTokens(last.frame) + 3

\* a model override with max_tokens 2: the 13 characters of the response
\* come back as 8 characters and '...'
C29_Witness ==
    /\ last.op = "returned"
    /\ last.frame.request.model # None
    /\ last.frame.request.max_tokens = 2
    /\ SentMaxTokens(last.frame) = 2
    /\ last.content = <<"Y", "e", "s", ".", " ", "a", "n", "d">> \o Ellipsis


\* the message dict is one that the claim lets _optimize_messages replace:
\* role user, a str content longer than 100 characters, more than 5
\* estimated tokens saved
MayReplace(msg) ==
    /\ msg.role = "user"
    /\ msg.content.type = "str"
    /\ TextLen(msg.content.value) > 100
    /\ Optimize(msg.content.value).tokens_saved > 5

\* C30: _optimize_messages preserves the number and order of messages and
\* never mutates the caller's list or message objects: every object of the
\* caller has its value after the call; the returned list is as long as the
\* caller's; at each position it holds the caller's own object, or else a new
\* object that is the caller's message with only its content changed to the
\* optimized text, and that only if the message has role user and a str
\* content longer than 100 characters on which more than 5 tokens are saved.
C30_OptimizeMessagesFrame ==
    Returned_("_optimize_messages") =>
        LET old == call.args.heap
            new == call.result.heap
            given == old[call.args.messages]
            optimized == new[call.result.optimized]
        IN  /\ \A id \in DOMAIN old : new[id] = old[id]
            /\ Len(optimized) = Len(given)
            /\ \A i \in 1..Len(given) :
                  \/ optimized[i] = given[i]
                  \/ /\ optimized[i] \notin DOMAIN old
                     /\ MayReplace(old[given[i]])
                     /\ new[optimized[i]] =
                          [old[given[i]] EXCEPT
                              !.content = Str(Optimize(old[given[i]].content.value).text)]

\* the list [m, s, m] of a long user message m and a long system message s:
\* two copies of m holding the optimized text, and s itself between them
C30_Witness ==
    /\ Returned_("_optimize_messages")
    /\ call.args.heap[1] = [role |-> "user", content |-> Str(LongSaving)]
    /\ call.args.heap[2] = [role |-> "system", content |-> Str(LongSaving)]
    /\ call.args.heap[3] = <<1, 2, 1>>
    /\ call.result.heap[call.result.optimized] = <<5, 2, 6>>
    /\ call.result.heap[5].content = Str(<<Letters80>>)
    /\ call.result.heap[1].content = Str(LongSaving)

====
